---- MODULE Spec2Model ----
(***************************************************************************)
(* Model of the job-scheduling simulator: the four scheduler services      *)
(* (src/fifo/scheduler.py, src/priority/scheduler.py, src/scheduler.py,    *)
(* src/round-robin/scheduler.py) and the worker processes that drive them  *)
(* (src/*/worker.py).                                                      *)
(*                                                                         *)
(* Time is the wall clock in whole milliseconds (`now`); every             *)
(* int(time.time() * 1000) of the code reads it.  A sleep or a timed wait  *)
(* of d real milliseconds started at millisecond t can be observed to end  *)
(* at any millisecond >= t + floor(d).                                     *)
(*                                                                         *)
(* One behaviour is one scheduler process; `policy` says which of the four *)
(* services it runs and never changes.                                     *)
(***************************************************************************)
EXTENDS Integers, Sequences, FiniteSets, TLC

VARIABLES
    now,          \* wall clock, ms
    policy,       \* "fifo" | "priority" | "rr_basic" | "rr" : the service running
    WORKERS,      \* registry dict: worker_id -> [cores, last_seen]
    ACTIVE_RUN,   \* NoRun or the RunState of the active run
    RUN_CV,       \* condition variable: [waiters: deque of sleeping callers,
                  \*                      woken: callers notified, not yet resumed]
    ARRIVAL_THREADS, \* arrival threads that have not exited: run_id of the thread's
                  \* run -> the done flag of that run object once it is replaced
    nruns,        \* number of runs created so far (stands for the fresh uuid)
    cfg,          \* the experiment: dataset_file, speedup (SPEEDUP of the worker and
                  \* speedup of /start), cores (CORES of the worker), quanta
    slot,         \* per (worker, core): the core driver / core thread / pending call
    reply,        \* the last HTTP reply produced by the scheduler
    admitted,     \* history: job ids in the order they entered the active run's ready structure
    dispatched    \* history: <<job_id, work_ms, entry popped>> in the order /next
                  \* returned them (active run)

vars == <<now, policy, WORKERS, ACTIVE_RUN, RUN_CV, ARRIVAL_THREADS, nruns,
          cfg, slot, reply, admitted, dispatched>>

-----------------------------------------------------------------------------
(* Bounds of the model                                                     *)

MaxWall == 3        \* the clock stops ticking here
MaxRuns == 2        \* /start calls per behaviour
MaxTimeoutMs == 2   \* largest timeout_ms a /next request carries

(* Program configuration                                                   *)

WORKER_TIMEOUT_MS == 2   \* WORKER_TIMEOUT_SEC (environment), in ms

None == "None"            \* a string that is absent
Unset == -1000000          \* an Optional[int] that is None
NoRun == [run_id |-> 0]  \* ACTIVE_RUN is None
WorkerIds == {"w1"}
Slots == WorkerIds \X {0, 1}     \* a slot with core_id >= CORES is never started
CORES == cfg.cores
SPEEDUP == cfg.speedup

Max(a, b) == IF a >= b THEN a ELSE b
Min(a, b) == IF a <= b THEN a ELSE b
Range(s) == {s[i] : i \in 1 .. Len(s)}

-----------------------------------------------------------------------------
(* Worker registry (identical in the four services)                        *)

register(worker_id, cores) ==
    [w \in DOMAIN WORKERS \cup {worker_id} |->
        IF w = worker_id THEN [cores |-> cores, last_seen |-> now] ELSE WORKERS[w]]

heartbeat_upsert(worker_id) ==
    [w \in DOMAIN WORKERS \cup {worker_id} |->
        IF w = worker_id
        THEN [cores |-> IF w \in DOMAIN WORKERS THEN WORKERS[w].cores ELSE 1,
              last_seen |-> now]
        ELSE WORKERS[w]]
heartbeat(worker_id) ==
    IF worker_id \in DOMAIN WORKERS
    THEN [WORKERS EXCEPT ![worker_id].last_seen = now]
    ELSE WORKERS

is_alive_worker_core_stale(worker_id, core_id) ==
    /\ worker_id \in DOMAIN WORKERS
    /\ 0 <= core_id
    /\ core_id < WORKERS[worker_id].cores
is_alive_worker_core(worker_id, core_id) ==
    /\ worker_id \in DOMAIN WORKERS
    /\ ~ (now - WORKERS[worker_id].last_seen > WORKER_TIMEOUT_MS)
    /\ 0 <= core_id
    /\ core_id < WORKERS[worker_id].cores

AliveCores_lingering(w) == WORKERS[w].cores
AliveCores(w) ==
    IF now - WORKERS[w].last_seen <= WORKER_TIMEOUT_MS THEN WORKERS[w].cores ELSE 0

RECURSIVE SumCores(_)
SumCores(S) ==
    IF S = {} THEN 0
    ELSE LET w == CHOOSE x \in S : TRUE IN AliveCores(w) + SumCores(S \ {w})

total_alive_slots == SumCores(DOMAIN WORKERS)

-----------------------------------------------------------------------------
(* Simulated time                                                          *)

\* Python's round(): to the nearest integer, a half to the even neighbour.
\* n / d with d > 0.
RoundHalfEven(n, d) ==
    LET q == n \div d
        r == n % d
    IN  IF 2 * r < d THEN q
        ELSE IF 2 * r > d THEN q + 1
        ELSE IF q % 2 = 0 THEN q ELSE q + 1

\* run.current_sim_ms = max(run.current_sim_ms, candidate)
advance_to(current_sim_ms, candidate) == candidate
advance(current_sim_ms, candidate) == Max(current_sim_ms, candidate)

\* speedup is the float num / den
wall_to_sim(run, wall_ms) ==
    RoundHalfEven((wall_ms - run.start_wall_ms) * run.speedup.num, run.speedup.den)

-----------------------------------------------------------------------------
(* Dataset files under DATA_DIR: the CSV's columns and rows                *)

Row(j, s, a, p) ==
    [job_id |-> j, service_time_ms |-> s, arrival_time_ms |-> a, priority |-> p]

AllColumns == {"job_id", "service_time_ms", "arrival_time_ms", "priority"}

DATA_DIR ==
    [f \in {"seq.csv", "late.csv", "prio.csv", "same.csv", "tie.csv", "ab.csv",
            "gap.csv", "contend.csv", "empty.csv", "bad.csv"} |->
        [columns |-> IF f = "bad.csv" THEN {"job_id"} ELSE AllColumns,
         rows |->
            CASE f = "seq.csv"  -> <<Row("A", 2, 0, 2), Row("B", 1, 1, 1)>>
              [] f = "late.csv" -> <<Row("B", 1, 2, 1), Row("A", 1, 1, 1), Row("C", 1, 0, 2)>>
              [] f = "prio.csv" -> <<Row("A", 1, 0, 10), Row("B", 1, 0, 1), Row("C", 1, 0, 5)>>
              [] f = "same.csv" -> <<Row("X", 5, 5, 1), Row("Y", 5, 0, 1)>>
              [] f = "tie.csv"  -> <<Row("C", 1, 0, 1), Row("B", 1, 1, 1), Row("A", 1, 1, 1)>>
              [] f = "ab.csv"   -> <<Row("A", 50, 0, 0), Row("B", 30, 0, 0)>>
              [] f = "gap.csv"  -> <<Row("A", 10, 0, 1), Row("B", 10, 1000, 1)>>
              [] f = "contend.csv" -> <<Row("A", 300, 0, 1), Row("B", 100, 50, 1)>>
              [] f = "empty.csv" -> <<>>
              [] f = "bad.csv"  -> <<[job_id |-> "A"]>>]]

Speedup(n, d) == [num |-> n, den |-> d]

\* dict insert: a new key goes last, an existing key keeps its place
DictKeys(keys, k) == IF k \in Range(keys) THEN keys ELSE Append(keys, k)
DictPut(d, k, v) == [x \in DOMAIN d \cup {k} |-> IF x = k THEN v ELSE d[x]]

-----------------------------------------------------------------------------
(* The callers: one core driver and one core thread per (worker, core)     *)

Off == [pc |-> "off", deadline |-> 0, wake |-> 0, job_id |-> None, work_ms |-> 0,
        remaining_before_ms |-> 0, started_wall_ms |-> 0, finished_wall_ms |-> 0,
        run_id |-> 0]
Polling == [Off EXCEPT !.pc = "poll"]

NoReply == [op |-> None, who |-> <<>>, code |-> 0, status |-> None, job_id |-> None]
Reply(op, who, code, status, job_id) ==
    [op |-> op, who |-> who, code |-> code, status |-> status, job_id |-> job_id]

\* an exception that is not an HTTPException leaves the handler: the framework
\* answers 500 Internal Server Error
ValueError(op) == Reply(op, <<>>, 500, None, None)
OSError(s, req) == Reply("done", s, 500, None, req.job_id)

\* the directory the result files go to, and whether they can be written there
RESULTS_DIR == cfg.results_dir
to_csv_raises == RESULTS_DIR # "rw"
\* jobs_csv / run_csv: None, or os.path.join(RESULTS_DIR, f"{name}_{run.run_id}.csv")
NoPath == <<>>
results_path_unset(name, run) == NoPath
results_path(name, run) == <<RESULTS_DIR, name, run.run_id, "csv">>

\* threading.Condition: notify wakes the longest-waiting sleeper, notify_all all
notify(cv) ==
    IF cv.waiters = <<>> THEN cv
    ELSE [waiters |-> Tail(cv.waiters), woken |-> cv.woken \cup {Head(cv.waiters)}]
notify_all_lost(cv) == cv
notify_all(cv) == [waiters |-> <<>>, woken |-> cv.woken \cup Range(cv.waiters)]
\* a caller that resumes from wait() (notified or timed out) leaves the condition
Resume(cv, s) ==
    [waiters |-> SelectSeq(cv.waiters, LAMBDA x : x # s), woken |-> cv.woken \ {s}]

\* done: raise HTTPException(status_code=400, detail="unknown job_id")
unknown_job_id_accepted(s, req) ==
    /\ reply' = Reply("done", s, 200, "ok", req.job_id)
    /\ RUN_CV' = notify(RUN_CV)
    /\ UNCHANGED <<ACTIVE_RUN>>
unknown_job_id(s, req) ==
    /\ reply' = Reply("done", s, 400, None, req.job_id)
    /\ UNCHANGED <<ACTIVE_RUN, RUN_CV>>

\* the reply to /next reaches the core driver of s
NextReturns(s, cv, status) ==
    /\ slot' = [slot EXCEPT ![s] = Polling]
    /\ RUN_CV' = cv
    /\ reply' = Reply("next", s, 200, status, None)
    /\ UNCHANGED <<dispatched>>

\* ok: core_driver hands the message to assign_to_core
NextDispatches_overlap(s, cv, run, jid, work_ms, remaining_before_ms, entry) ==
    /\ slot' = [slot EXCEPT ![s] =
                  [Off EXCEPT !.pc = "poll", !.job_id = jid, !.work_ms = work_ms,
                              !.remaining_before_ms = remaining_before_ms,
                              !.run_id = run.run_id]]
    /\ RUN_CV' = cv
    /\ reply' = Reply("next", s, 200, "ok", jid)
    /\ dispatched' = Append(dispatched, <<jid, work_ms, entry>>)
NextDispatches(s, cv, run, jid, work_ms, remaining_before_ms, entry) ==
    /\ slot' = [slot EXCEPT ![s] =
                  [Off EXCEPT !.pc = "assigned", !.job_id = jid, !.work_ms = work_ms,
                              !.remaining_before_ms = remaining_before_ms,
                              !.run_id = run.run_id]]
    /\ RUN_CV' = cv
    /\ reply' = Reply("next", s, 200, "ok", jid)
    /\ dispatched' = Append(dispatched, <<jid, work_ms, entry>>)

\* RUN_CV.wait(timeout): the caller sleeps; timeout_ms is floored to the clock
NextWaits(s, cv, deadline, timeout_ms) ==
    /\ slot' = [slot EXCEPT ![s] =
                  [Off EXCEPT !.pc = "blocked", !.deadline = deadline,
                              !.wake = now + timeout_ms]]
    /\ RUN_CV' = [cv EXCEPT !.waiters = Append(@, s)]
    /\ UNCHANGED <<reply, dispatched>>

popleft_right(q) == [item |-> q[Len(q)], rest |-> SubSeq(q, 1, Len(q) - 1)]
popleft_clear(q) == [item |-> Head(q), rest |-> <<>>]
\* collections.deque: popleft removes and returns the leftmost item
popleft(q) == [item |-> Head(q), rest |-> Tail(q)]

-----------------------------------------------------------------------------
(* src/fifo/scheduler.py                                                   *)

RECURSIVE fifo_load_rows(_, _, _, _)
fifo_load_rows(rows, has_arrival, keys, jobs) ==
    IF rows = <<>> THEN [keys |-> keys, jobs |-> jobs]
    ELSE LET row == Head(rows)
             jid == row.job_id
             job == [job_id |-> jid, service_ms |-> row.service_time_ms,
                     arrival_ms |-> IF has_arrival THEN row.arrival_time_ms ELSE 0,
                     start_ms |-> Unset, finish_ms |-> Unset]
         IN  fifo_load_rows(Tail(rows), has_arrival, DictKeys(keys, jid),
                            DictPut(jobs, jid, job))

\* load_jobs: the columns without which it raises ValueError
fifo_needed == {"job_id", "service_time_ms"}

fifo_load_jobs(file) ==
    fifo_load_rows(file.rows, "arrival_time_ms" \in file.columns, <<>>, <<>>)

fifo_RunState(req, loaded) ==
    [run_id |-> nruns + 1,
     dataset_file |-> req.dataset_file,
     speedup |-> req.speedup,
     start_wall_ms |-> now,
     jobs |-> loaded.jobs,
     job_keys |-> loaded.keys,
     ready_q |-> SelectSeq(loaded.keys, LAMBDA j : loaded.jobs[j].arrival_ms <= 0),
     pending_jobs |-> SelectSeq(loaded.keys, LAMBDA j : ~ (loaded.jobs[j].arrival_ms <= 0)),
     total_jobs |-> Len(loaded.keys),
     current_sim_ms |-> 0,
     completed |-> 0,
     done |-> FALSE,
     summary |-> [jobs |-> Unset],
     jobs_csv |-> NoPath,
     run_csv |-> NoPath,
     jobs_df |-> <<>>]

\* run.done as the arrival thread of run r reads it
thread_run_done(r) ==
    IF ACTIVE_RUN # NoRun /\ ACTIVE_RUN.run_id = r THEN ACTIVE_RUN.done
    ELSE ARRIVAL_THREADS[r]

\* threading.Thread(target=arrival_thread_func, args=(run,)).start(): the
\* threads of earlier runs keep their run objects
thread_start(run_id) ==
    [r \in DOMAIN ARRIVAL_THREADS \cup {run_id} |->
        IF r = run_id THEN FALSE ELSE thread_run_done(r)]

fifo_start(req) ==
    /\ IF total_alive_slots < req.min_slots
           \/ req.dataset_file \notin DOMAIN DATA_DIR
       THEN /\ reply' = Reply("start", <<>>, 400, None, None)
            /\ UNCHANGED <<ACTIVE_RUN, RUN_CV, ARRIVAL_THREADS, nruns, admitted, dispatched>>
       ELSE IF ~ (fifo_needed \subseteq DATA_DIR[req.dataset_file].columns)
       THEN /\ reply' = ValueError("start")
            /\ UNCHANGED <<ACTIVE_RUN, RUN_CV, ARRIVAL_THREADS, nruns, admitted, dispatched>>
       ELSE LET run == fifo_RunState(req, fifo_load_jobs(DATA_DIR[req.dataset_file]))
            IN  /\ ACTIVE_RUN' = run
                /\ RUN_CV' = notify_all(RUN_CV)
                /\ ARRIVAL_THREADS' = thread_start(run.run_id)
                /\ nruns' = nruns + 1
                /\ admitted' = run.ready_q
                /\ dispatched' = <<>>
                /\ reply' = Reply("start", <<>>, 200, "ok", None)

\* the pending jobs that are due, in the order of the pending_jobs dict
fifo_jobs_to_add(run, current_sim) ==
    SelectSeq(run.pending_jobs, LAMBDA j : run.jobs[j].arrival_ms <= current_sim)

\* the body of the arrival thread's loop under RUN_CV
fifo_arrival_pass(run, current_sim) ==
    LET jobs_to_add == fifo_jobs_to_add(run, current_sim) IN
    [run EXCEPT !.pending_jobs = SelectSeq(@, LAMBDA j : j \notin Range(jobs_to_add)),
                !.ready_q = @ \o jobs_to_add,
                !.current_sim_ms = advance(@, current_sim)]

\* the body of one pass of the arrival thread bound to the active run: the
\* loop condition was tested before the lock was taken and is not tested again
fifo_arrival_thread_func ==
    /\ ACTIVE_RUN # NoRun
    /\ ACTIVE_RUN.run_id \in DOMAIN ARRIVAL_THREADS
    /\ LET run == ACTIVE_RUN
           current_sim == wall_to_sim(run, now)
           jobs_to_add == fifo_jobs_to_add(run, current_sim)
       IN  /\ ACTIVE_RUN' = fifo_arrival_pass(run, current_sim)
           /\ RUN_CV' = IF jobs_to_add # <<>> THEN notify_all(RUN_CV) ELSE RUN_CV
           /\ admitted' = admitted \o jobs_to_add
    /\ UNCHANGED <<now, policy, WORKERS, nruns, cfg, slot, reply, dispatched>>

\* the body of next_job's `with RUN_CV: while True:` loop, once
fifo_next_loop(s, deadline, cv) ==
    LET run == ACTIVE_RUN IN
    /\ UNCHANGED <<admitted>>
    /\ IF run = NoRun
       THEN NextReturns(s, cv, "no_run") /\ UNCHANGED ACTIVE_RUN
       ELSE IF run.done \/ run.completed >= run.total_jobs
       THEN NextReturns(s, cv, "done") /\ UNCHANGED ACTIVE_RUN
       ELSE IF run.ready_q # <<>>
       THEN LET jid == popleft(run.ready_q).item IN
            /\ ACTIVE_RUN' = [run EXCEPT !.ready_q = popleft(@).rest]
            /\ NextDispatches(s, cv, run, jid, run.jobs[jid].service_ms, 0, jid)
       ELSE IF deadline - now <= 0
       THEN NextReturns(s, cv, "wait") /\ UNCHANGED ACTIVE_RUN
       ELSE NextWaits(s, cv, deadline, deadline - now) /\ UNCHANGED ACTIVE_RUN

\* next_job: the liveness check, the deadline, then the loop
fifo_next_job(s, req) ==
    IF ~ is_alive_worker_core(req.worker_id, req.core_id)
    THEN /\ reply' = Reply("next", s, 400, None, None)
         /\ UNCHANGED <<ACTIVE_RUN, RUN_CV, slot, admitted, dispatched>>
    ELSE fifo_next_loop(s, now + req.timeout_ms, RUN_CV)

\* finalize_run: the row of a job in the jobs CSV (integer columns)
fifo_row_late(job) ==
    [job_id |-> job.job_id,
     arrival_time_ms |-> job.arrival_ms,
     service_time_ms |-> job.service_ms,
     start_time_ms |-> job.start_ms,
     finish_time_ms |-> job.finish_ms,
     waiting_time_ms |-> job.finish_ms - job.arrival_ms,
     execution_time_ms |-> job.finish_ms - job.start_ms,
     response_time_ms |-> job.finish_ms - job.arrival_ms]
fifo_row(job) ==
    [job_id |-> job.job_id,
     arrival_time_ms |-> job.arrival_ms,
     service_time_ms |-> job.service_ms,
     start_time_ms |-> job.start_ms,
     finish_time_ms |-> job.finish_ms,
     waiting_time_ms |-> job.start_ms - job.arrival_ms,
     execution_time_ms |-> job.finish_ms - job.start_ms,
     response_time_ms |-> job.finish_ms - job.arrival_ms]

\* finalize_run leaves by an exception of os.makedirs or to_csv
fifo_finalize_raises(run) ==
    /\ \E j \in DOMAIN run.jobs : run.jobs[j].finish_ms # Unset /\ run.jobs[j].start_ms # Unset
    /\ to_csv_raises

fifo_finalize_run(run) ==
    LET rows == {j \in DOMAIN run.jobs :
                    run.jobs[j].finish_ms # Unset /\ run.jobs[j].start_ms # Unset}
    IN  IF rows = {} THEN run
        ELSE [run EXCEPT !.jobs_df = [j \in rows |-> fifo_row(run.jobs[j])],
                         !.jobs_csv = results_path("results_jobs", run),
                         !.run_csv = results_path("results_run", run),
                         !.summary = [jobs |-> Cardinality(rows)],
                         !.done = TRUE]

fifo_done(req) ==
    LET run == ACTIVE_RUN
        s == <<req.worker_id, req.core_id>>
    IN
    /\ UNCHANGED <<admitted, dispatched>>
    /\ IF ~ is_alive_worker_core(req.worker_id, req.core_id)
       THEN /\ reply' = Reply("done", s, 400, None, req.job_id)
            /\ UNCHANGED <<ACTIVE_RUN, RUN_CV>>
       ELSE IF run = NoRun
       THEN /\ reply' = Reply("done", s, 200, "no_run", req.job_id)
            /\ UNCHANGED <<ACTIVE_RUN, RUN_CV>>
       ELSE IF run.done
       THEN /\ reply' = Reply("done", s, 200, "done", req.job_id)
            /\ UNCHANGED <<ACTIVE_RUN, RUN_CV>>
       ELSE IF req.job_id \notin DOMAIN run.jobs
       THEN unknown_job_id(s, req)
       ELSE LET job == run.jobs[req.job_id]
                started_sim == wall_to_sim(run, req.started_wall_ms)
                start_ms == IF job.start_ms = Unset THEN started_sim ELSE job.start_ms
                finish_ms == start_ms + job.service_ms
                run1 == [run EXCEPT !.jobs[req.job_id].start_ms = start_ms,
                                    !.jobs[req.job_id].finish_ms = finish_ms,
                                    !.current_sim_ms = advance(@, finish_ms),
                                    !.completed = @ + 1]
            IN  IF run1.completed >= run1.total_jobs
                THEN IF fifo_finalize_raises(run1)
                     THEN /\ ACTIVE_RUN' = run1
                          /\ RUN_CV' = RUN_CV
                          /\ reply' = OSError(s, req)
                     ELSE /\ ACTIVE_RUN' = fifo_finalize_run(run1)
                          /\ RUN_CV' = notify_all(RUN_CV)
                          /\ reply' = Reply("done", s, 200, "ok", req.job_id)
                ELSE /\ ACTIVE_RUN' = run1
                     /\ RUN_CV' = notify(RUN_CV)
                     /\ reply' = Reply("done", s, 200, "ok", req.job_id)

-----------------------------------------------------------------------------
(* src/priority/scheduler.py                                               *)

\* Python compares the job_id strings of two heap entries character by character
JobIdOrder == <<"A", "B", "C", "X", "Y">>
StrLess(a, b) ==
    \E i, j \in 1 .. Len(JobIdOrder) : JobIdOrder[i] = a /\ JobIdOrder[j] = b /\ i < j

\* tuple comparison of ready_heap entries (priority, arrival_ms, seq, job_id)
ReadyLess(a, b) ==
    \/ a[1] < b[1]
    \/ a[1] = b[1] /\ a[2] < b[2]
    \/ a[1] = b[1] /\ a[2] = b[2] /\ a[3] < b[3]
    \/ a[1] = b[1] /\ a[2] = b[2] /\ a[3] = b[3] /\ StrLess(a[4], b[4])

\* tuple comparison of pending_heap entries (arrival_ms, seq, job_id)
PendingLess(a, b) ==
    \/ a[1] < b[1]
    \/ a[1] = b[1] /\ a[2] < b[2]
    \/ a[1] = b[1] /\ a[2] = b[2] /\ StrLess(a[3], b[3])

ReadyMin_seq(heap) == CHOOSE e \in heap : \A o \in heap \ {e} : e[3] < o[3]
\* heapq: a heap is kept as the set of its entries; heap[0] and heappop give the
\* least entry, heappush adds one
ReadyMin(heap) == CHOOSE e \in heap : \A o \in heap \ {e} : ReadyLess(e, o)
PendingMin(heap) == CHOOSE e \in heap : \A o \in heap \ {e} : PendingLess(e, o)

RECURSIVE prio_load_rows(_, _, _, _)
prio_load_rows(rows, has_arrival, keys, jobs) ==
    IF rows = <<>> THEN [keys |-> keys, jobs |-> jobs]
    ELSE LET row == Head(rows)
             jid == row.job_id
             job == [job_id |-> jid, service_ms |-> row.service_time_ms,
                     arrival_ms |-> IF has_arrival THEN row.arrival_time_ms ELSE 0,
                     priority |-> row.priority,
                     start_ms |-> Unset, finish_ms |-> Unset]
         IN  prio_load_rows(Tail(rows), has_arrival, DictKeys(keys, jid),
                            DictPut(jobs, jid, job))

\* load_jobs: the columns without which it raises ValueError
prio_needed == {"job_id", "service_time_ms", "priority"}

prio_load_jobs(file) ==
    prio_load_rows(file.rows, "arrival_time_ms" \in file.columns, <<>>, <<>>)

push_ready_sameseq(run, job_id) ==
    LET job == run.jobs[job_id] IN
    [run EXCEPT !.ready_heap = @ \cup {<<job.priority, job.arrival_ms, 0, job_id>>}]
push_ready(run, job_id) ==
    LET job == run.jobs[job_id] IN
    [run EXCEPT !.ready_heap = @ \cup {<<job.priority, job.arrival_ms, run.next_seq, job_id>>},
                !.next_seq = @ + 1]

\* start's loop over jobs.items(): seq is the position in the dict
RECURSIVE prio_start_heaps(_, _, _, _, _)
prio_start_heaps(keys, jobs, seq, ready_heap, pending_heap) ==
    IF keys = <<>> THEN [ready_heap |-> ready_heap, pending_heap |-> pending_heap, seq |-> seq]
    ELSE LET job == jobs[Head(keys)] IN
         IF job.arrival_ms <= 0
         THEN prio_start_heaps(Tail(keys), jobs, seq + 1,
                  ready_heap \cup {<<job.priority, job.arrival_ms, seq, job.job_id>>},
                  pending_heap)
         ELSE prio_start_heaps(Tail(keys), jobs, seq + 1, ready_heap,
                  pending_heap \cup {<<job.arrival_ms, seq, job.job_id>>})

prio_RunState(req, loaded) ==
    LET h == prio_start_heaps(loaded.keys, loaded.jobs, 0, {}, {}) IN
    [run_id |-> nruns + 1,
     dataset_file |-> req.dataset_file,
     speedup |-> req.speedup,
     start_wall_ms |-> now,
     jobs |-> loaded.jobs,
     job_keys |-> loaded.keys,
     ready_heap |-> h.ready_heap,
     pending_heap |-> h.pending_heap,
     next_seq |-> h.seq,
     total_jobs |-> Len(loaded.keys),
     current_sim_ms |-> 0,
     completed |-> 0,
     done |-> FALSE,
     summary |-> [jobs |-> Unset],
     jobs_csv |-> NoPath,
     run_csv |-> NoPath,
     jobs_df |-> <<>>]

\* promote_arrivals: the run after the loop, and the jobs promoted, in order
RECURSIVE promote_arrivals(_, _, _)
promote_arrivals(run, upto_sim_ms, promoted) ==
    IF run.pending_heap # {} /\ PendingMin(run.pending_heap)[1] <= upto_sim_ms
    THEN LET e == PendingMin(run.pending_heap)
             run1 == [run EXCEPT !.pending_heap = @ \ {e}]
         IN  promote_arrivals(push_ready(run1, e[3]), upto_sim_ms, Append(promoted, e[3]))
    ELSE [run |-> run, promoted |-> promoted]

prio_start(req) ==
    /\ IF total_alive_slots < req.min_slots
           \/ req.dataset_file \notin DOMAIN DATA_DIR
       THEN /\ reply' = Reply("start", <<>>, 400, None, None)
            /\ UNCHANGED <<ACTIVE_RUN, RUN_CV, ARRIVAL_THREADS, nruns, admitted, dispatched>>
       ELSE IF ~ (prio_needed \subseteq DATA_DIR[req.dataset_file].columns)
       THEN /\ reply' = ValueError("start")
            /\ UNCHANGED <<ACTIVE_RUN, RUN_CV, ARRIVAL_THREADS, nruns, admitted, dispatched>>
       ELSE LET run == prio_RunState(req, prio_load_jobs(DATA_DIR[req.dataset_file]))
            IN  /\ ACTIVE_RUN' = run
                /\ RUN_CV' = notify_all(RUN_CV)
                /\ ARRIVAL_THREADS' = thread_start(run.run_id)
                /\ nruns' = nruns + 1
                /\ admitted' = SelectSeq(run.job_keys, LAMBDA j : run.jobs[j].arrival_ms <= 0)
                /\ dispatched' = <<>>
                /\ reply' = Reply("start", <<>>, 200, "ok", None)

\* the body of one pass of the arrival thread bound to the active run: the
\* loop condition was tested before the lock was taken and is not tested again
prio_arrival_thread_func ==
    /\ ACTIVE_RUN # NoRun
    /\ ACTIVE_RUN.run_id \in DOMAIN ARRIVAL_THREADS
    /\ LET run == ACTIVE_RUN
           current_sim == wall_to_sim(run, now)
           run1 == [run EXCEPT !.current_sim_ms = advance(@, current_sim)]
           p == promote_arrivals(run1, run1.current_sim_ms, <<>>)
       IN  /\ ACTIVE_RUN' = p.run
           /\ RUN_CV' = IF p.promoted # <<>> THEN notify_all(RUN_CV) ELSE RUN_CV
           /\ admitted' = admitted \o p.promoted
    /\ UNCHANGED <<now, policy, WORKERS, nruns, cfg, slot, reply, dispatched>>

\* the body of next_job's `with RUN_CV: while True:` loop, once
prio_next_loop(s, deadline, cv) ==
    LET run == ACTIVE_RUN IN
    IF run = NoRun
    THEN NextReturns(s, cv, "no_run") /\ UNCHANGED <<ACTIVE_RUN, admitted>>
    ELSE IF run.done \/ run.completed >= run.total_jobs
    THEN NextReturns(s, cv, "done") /\ UNCHANGED <<ACTIVE_RUN, admitted>>
    ELSE LET now_sim == wall_to_sim(run, now)
             run1 == [run EXCEPT !.current_sim_ms = advance(@, now_sim)]
             p == promote_arrivals(run1, run1.current_sim_ms, <<>>)
             cv1 == IF p.promoted # <<>> THEN notify_all(cv) ELSE cv
         IN  /\ admitted' = admitted \o p.promoted
             /\ IF p.run.ready_heap # {}
                THEN LET e == ReadyMin(p.run.ready_heap) IN
                     /\ ACTIVE_RUN' = [p.run EXCEPT !.ready_heap = @ \ {e}]
                     /\ NextDispatches(s, cv1, run, e[4], run.jobs[e[4]].service_ms, 0, e)
                ELSE IF deadline - now <= 0
                THEN NextReturns(s, cv1, "wait") /\ ACTIVE_RUN' = p.run
                ELSE NextWaits(s, cv1, deadline, deadline - now) /\ ACTIVE_RUN' = p.run

prio_next_job(s, req) ==
    IF ~ is_alive_worker_core(req.worker_id, req.core_id)
    THEN /\ reply' = Reply("next", s, 400, None, None)
         /\ UNCHANGED <<ACTIVE_RUN, RUN_CV, slot, admitted, dispatched>>
    ELSE prio_next_loop(s, now + req.timeout_ms, RUN_CV)

\* finalize_run: the row of a job in the jobs CSV (integer columns)
prio_row(job) ==
    [job_id |-> job.job_id,
     arrival_time_ms |-> job.arrival_ms,
     service_time_ms |-> job.service_ms,
     start_time_ms |-> job.start_ms,
     finish_time_ms |-> job.finish_ms,
     waiting_time_ms |-> job.start_ms - job.arrival_ms,
     execution_time_ms |-> job.finish_ms - job.start_ms,
     response_time_ms |-> job.finish_ms - job.arrival_ms,
     priority |-> job.priority]

\* finalize_run leaves by an exception of os.makedirs or to_csv
prio_finalize_raises(run) ==
    /\ \E j \in DOMAIN run.jobs : run.jobs[j].finish_ms # Unset /\ run.jobs[j].start_ms # Unset
    /\ to_csv_raises

prio_finalize_run(run) ==
    LET rows == {j \in DOMAIN run.jobs :
                    run.jobs[j].start_ms # Unset /\ run.jobs[j].finish_ms # Unset}
    IN  IF rows = {} THEN run
        ELSE [run EXCEPT !.jobs_df = [j \in rows |-> prio_row(run.jobs[j])],
                         !.jobs_csv = results_path("results_jobs", run),
                         !.run_csv = results_path("results_run", run),
                         !.summary = [jobs |-> Cardinality(rows)],
                         !.done = TRUE]

prio_done(req) ==
    LET run == ACTIVE_RUN
        s == <<req.worker_id, req.core_id>>
    IN
    /\ UNCHANGED <<admitted, dispatched>>
    /\ IF ~ is_alive_worker_core(req.worker_id, req.core_id)
       THEN /\ reply' = Reply("done", s, 400, None, req.job_id)
            /\ UNCHANGED <<ACTIVE_RUN, RUN_CV>>
       ELSE IF run = NoRun
       THEN /\ reply' = Reply("done", s, 200, "no_run", req.job_id)
            /\ UNCHANGED <<ACTIVE_RUN, RUN_CV>>
       ELSE IF run.done
       THEN /\ reply' = Reply("done", s, 200, "done", req.job_id)
            /\ UNCHANGED <<ACTIVE_RUN, RUN_CV>>
       ELSE IF req.job_id \notin DOMAIN run.jobs
       THEN unknown_job_id(s, req)
       ELSE LET job == run.jobs[req.job_id]
                started_sim == wall_to_sim(run, req.started_wall_ms)
                finished_sim == started_sim + job.service_ms
                run1 == [run EXCEPT !.jobs[req.job_id].start_ms =
                                        IF @ = Unset THEN started_sim ELSE @,
                                    !.jobs[req.job_id].finish_ms = finished_sim,
                                    !.current_sim_ms = advance(@, finished_sim),
                                    !.completed = @ + 1]
            IN  IF run1.completed >= run1.total_jobs
                THEN IF prio_finalize_raises(run1)
                     THEN /\ ACTIVE_RUN' = run1
                          /\ RUN_CV' = RUN_CV
                          /\ reply' = OSError(s, req)
                     ELSE /\ ACTIVE_RUN' = prio_finalize_run(run1)
                          /\ RUN_CV' = notify_all(RUN_CV)
                          /\ reply' = Reply("done", s, 200, "ok", req.job_id)
                ELSE /\ ACTIVE_RUN' = run1
                     /\ RUN_CV' = notify(RUN_CV)
                     /\ reply' = Reply("done", s, 200, "ok", req.job_id)

-----------------------------------------------------------------------------
(* src/scheduler.py: round-robin without arrival times ("rr_basic")        *)

RECURSIVE rr0_load_rows(_, _, _)
rr0_load_rows(rows, keys, jobs) ==
    IF rows = <<>> THEN [keys |-> keys, jobs |-> jobs]
    ELSE LET row == Head(rows)
             jid == row.job_id
             job == [job_id |-> jid, service_ms |-> row.service_time_ms,
                     remaining_ms |-> row.service_time_ms, arrival_ms |-> 0,
                     first_start_ms |-> Unset, finish_ms |-> Unset,
                     slices |-> 0, preemptions |-> 0]
         IN  rr0_load_rows(Tail(rows), DictKeys(keys, jid), DictPut(jobs, jid, job))

\* load_jobs: the columns without which it raises ValueError
rr0_needed == {"job_id", "service_time_ms"}

rr0_load_jobs(file) == rr0_load_rows(file.rows, <<>>, <<>>)

rr_requeue_front(q, jid) == <<jid>> \o q
\* run.ready_q.append(job.job_id)
rr_requeue(q, jid) == Append(q, jid)

rr0_RunState(req, loaded) ==
    [run_id |-> nruns + 1,
     dataset_file |-> req.dataset_file,
     quantum_ms |-> req.quantum_ms,
     speedup |-> req.speedup,
     start_wall_ms |-> now,
     jobs |-> loaded.jobs,
     job_keys |-> loaded.keys,
     ready_q |-> loaded.keys,
     total_jobs |-> Len(loaded.keys),
     completed |-> 0,
     done |-> FALSE,
     summary |-> [jobs |-> Unset],
     jobs_csv |-> NoPath,
     run_csv |-> NoPath,
     jobs_df |-> <<>>]

rr0_start(req) ==
    /\ IF total_alive_slots < req.min_slots
           \/ req.dataset_file \notin DOMAIN DATA_DIR
       THEN /\ reply' = Reply("start", <<>>, 400, None, None)
            /\ UNCHANGED <<ACTIVE_RUN, RUN_CV, nruns, admitted, dispatched>>
       ELSE IF ~ (rr0_needed \subseteq DATA_DIR[req.dataset_file].columns)
       THEN /\ reply' = ValueError("start")
            /\ UNCHANGED <<ACTIVE_RUN, RUN_CV, nruns, admitted, dispatched>>
       ELSE LET run == rr0_RunState(req, rr0_load_jobs(DATA_DIR[req.dataset_file]))
            IN  /\ ACTIVE_RUN' = run
                /\ RUN_CV' = notify_all(RUN_CV)
                /\ nruns' = nruns + 1
                /\ admitted' = run.ready_q
                /\ dispatched' = <<>>
                /\ reply' = Reply("start", <<>>, 200, "ok", None)
    /\ UNCHANGED ARRIVAL_THREADS

\* the body of next_slice's `with RUN_CV: while True:` loop, once
rr0_next_loop(s, deadline, cv) ==
    LET run == ACTIVE_RUN IN
    /\ UNCHANGED <<admitted>>
    /\ IF run = NoRun
       THEN NextReturns(s, cv, "no_run") /\ UNCHANGED ACTIVE_RUN
       ELSE IF run.done \/ run.completed >= run.total_jobs
       THEN NextReturns(s, cv, "done") /\ UNCHANGED ACTIVE_RUN
       ELSE IF run.ready_q # <<>>
       THEN LET jid == popleft(run.ready_q).item
                job == run.jobs[jid]
                slice_ms == Min(run.quantum_ms, job.remaining_ms)
            IN  /\ ACTIVE_RUN' = [run EXCEPT !.ready_q = popleft(@).rest]
                /\ NextDispatches(s, cv, run, jid, slice_ms, job.remaining_ms, jid)
       ELSE IF deadline - now <= 0
       THEN NextReturns(s, cv, "wait") /\ UNCHANGED ACTIVE_RUN
       ELSE NextWaits(s, cv, deadline, deadline - now) /\ UNCHANGED ACTIVE_RUN

rr0_next_slice(s, req) ==
    IF ~ is_alive_worker_core(req.worker_id, req.core_id)
    THEN /\ reply' = Reply("next", s, 400, None, None)
         /\ UNCHANGED <<ACTIVE_RUN, RUN_CV, slot, admitted, dispatched>>
    ELSE rr0_next_loop(s, now + req.timeout_ms, RUN_CV)

\* finalize_run: the row of a job in the jobs CSV (integer columns)
rr0_row(job) ==
    LET response == job.finish_ms - job.arrival_ms IN
    [job_id |-> job.job_id,
     service_time_ms |-> job.service_ms,
     arrival_time_ms |-> job.arrival_ms,
     first_start_time_ms |-> IF job.first_start_ms # Unset THEN job.first_start_ms ELSE 0,
     finish_time_ms |-> job.finish_ms,
     response_time_ms |-> response,
     waiting_time_ms |-> response - job.service_ms,
     slices |-> job.slices,
     preemptions |-> job.preemptions]

\* finalize_run leaves by an exception of os.makedirs or to_csv
rr0_finalize_raises(run) == to_csv_raises

rr0_finalize_run(run) ==
    LET rows == {j \in DOMAIN run.jobs : run.jobs[j].finish_ms # Unset}
    IN  [run EXCEPT !.jobs_df = [j \in rows |-> rr0_row(run.jobs[j])],
                    !.jobs_csv = results_path("results_jobs", run),
                    !.run_csv = results_path("results_run", run),
                    !.summary = [jobs |-> Cardinality(rows)],
                    !.done = TRUE]

rr0_done(req) ==
    LET run == ACTIVE_RUN
        s == <<req.worker_id, req.core_id>>
    IN
    /\ UNCHANGED <<dispatched>>
    /\ IF ~ is_alive_worker_core(req.worker_id, req.core_id)
       THEN /\ reply' = Reply("done", s, 400, None, req.job_id)
            /\ UNCHANGED <<ACTIVE_RUN, RUN_CV, admitted>>
       ELSE IF run = NoRun
       THEN /\ reply' = Reply("done", s, 200, "no_run", req.job_id)
            /\ UNCHANGED <<ACTIVE_RUN, RUN_CV, admitted>>
       ELSE IF run.done
       THEN /\ reply' = Reply("done", s, 200, "done", req.job_id)
            /\ UNCHANGED <<ACTIVE_RUN, RUN_CV, admitted>>
       ELSE IF req.job_id \notin DOMAIN run.jobs
       THEN unknown_job_id(s, req) /\ UNCHANGED admitted
       ELSE LET job == run.jobs[req.job_id]
                started_sim == wall_to_sim(run, req.started_wall_ms)
                finished_sim == wall_to_sim(run, req.finished_wall_ms)
                remaining_ms == Max(0, req.remaining_after_ms)
                job1 == [job EXCEPT !.first_start_ms = IF @ = Unset THEN started_sim ELSE @,
                                    !.slices = @ + 1,
                                    !.remaining_ms = remaining_ms]
                run1 == IF remaining_ms = 0
                        THEN [run EXCEPT !.jobs[req.job_id] =
                                             [job1 EXCEPT !.finish_ms = finished_sim],
                                         !.completed = @ + 1]
                        ELSE [run EXCEPT !.jobs[req.job_id] =
                                             [job1 EXCEPT !.preemptions = @ + 1],
                                         !.ready_q = rr_requeue(@, job.job_id)]
                cv1 == IF remaining_ms = 0 THEN RUN_CV ELSE notify(RUN_CV)
            IN  /\ admitted' = IF remaining_ms = 0 THEN admitted
                               ELSE Append(admitted, job.job_id)
                /\ IF run1.completed >= run1.total_jobs
                   THEN IF rr0_finalize_raises(run1)
                        THEN /\ ACTIVE_RUN' = run1
                             /\ RUN_CV' = cv1
                             /\ reply' = OSError(s, req)
                        ELSE /\ ACTIVE_RUN' = rr0_finalize_run(run1)
                             /\ RUN_CV' = notify_all(cv1)
                             /\ reply' = Reply("done", s, 200, "ok", req.job_id)
                   ELSE /\ ACTIVE_RUN' = run1
                        /\ RUN_CV' = cv1
                        /\ reply' = Reply("done", s, 200, "ok", req.job_id)

-----------------------------------------------------------------------------
(* src/round-robin/scheduler.py: round-robin with arrival times ("rr")     *)

\* a stable sort of <<key, item>> pairs by key: each pair goes after the last
\* pair whose key is not greater
RECURSIVE InsertStable(_, _)
InsertStable(sorted, x) ==
    IF sorted = <<>> THEN <<x>>
    ELSE IF Head(sorted)[1] <= x[1]
    THEN <<Head(sorted)>> \o InsertStable(Tail(sorted), x)
    ELSE <<x>> \o sorted

RECURSIVE StableSort(_)
StableSort(pairs) ==
    IF pairs = <<>> THEN <<>>
    ELSE InsertStable(StableSort(SubSeq(pairs, 1, Len(pairs) - 1)), pairs[Len(pairs)])

Items(pairs) == [i \in 1..Len(pairs) |-> pairs[i][2]]

RECURSIVE rr_load_rows(_, _, _)
rr_load_rows(rows, keys, jobs) ==
    IF rows = <<>> THEN [keys |-> keys, jobs |-> jobs]
    ELSE LET row == Head(rows)
             jid == row.job_id
             job == [job_id |-> jid, service_ms |-> row.service_time_ms,
                     remaining_ms |-> row.service_time_ms,
                     arrival_ms |-> row.arrival_time_ms,
                     first_start_ms |-> Unset, finish_ms |-> Unset,
                     slices |-> 0, preemptions |-> 0]
         IN  rr_load_rows(Tail(rows), DictKeys(keys, jid), DictPut(jobs, jid, job))

\* df.sort_values("arrival_time_ms", kind="stable"), then the rows in that order
\* load_jobs: the columns without which it raises ValueError
rr_needed == {"job_id", "service_time_ms", "arrival_time_ms"}

rr_load_jobs(file) ==
    rr_load_rows(Items(StableSort([i \in 1..Len(file.rows) |->
                                      <<file.rows[i].arrival_time_ms, file.rows[i]>>])),
                 <<>>, <<>>)

RECURSIVE release_arrivals(_, _)
release_arrivals(run, now_sim_ms) ==
    IF run.pending_idx < Len(run.pending_ids)
    THEN LET jid == run.pending_ids[run.pending_idx + 1] IN
         IF run.jobs[jid].arrival_ms > now_sim_ms THEN run
         ELSE release_arrivals([run EXCEPT !.ready_q = Append(@, jid),
                                           !.pending_idx = @ + 1], now_sim_ms)
    ELSE run

\* the job ids release_arrivals moved from run0 to run1
Released(run0, run1) == SubSeq(run1.pending_ids, run0.pending_idx + 1, run1.pending_idx)

rr_RunState(req, loaded) ==
    release_arrivals(
        [run_id |-> nruns + 1,
         dataset_file |-> req.dataset_file,
         quantum_ms |-> req.quantum_ms,
         speedup |-> req.speedup,
         start_wall_ms |-> now,
         jobs |-> loaded.jobs,
         job_keys |-> loaded.keys,
         ready_q |-> <<>>,
         pending_ids |-> Items(StableSort([i \in 1..Len(loaded.keys) |->
                              <<loaded.jobs[loaded.keys[i]].arrival_ms, loaded.keys[i]>>])),
         total_jobs |-> Len(loaded.keys),
         pending_idx |-> 0,
         completed |-> 0,
         done |-> FALSE,
         summary |-> [jobs |-> Unset],
         jobs_csv |-> NoPath,
         run_csv |-> NoPath,
         jobs_df |-> <<>>], 0)

rr_start(req) ==
    /\ IF total_alive_slots < req.min_slots
           \/ req.dataset_file \notin DOMAIN DATA_DIR
       THEN /\ reply' = Reply("start", <<>>, 400, None, None)
            /\ UNCHANGED <<ACTIVE_RUN, RUN_CV, nruns, admitted, dispatched>>
       ELSE IF ~ (rr_needed \subseteq DATA_DIR[req.dataset_file].columns)
       THEN /\ reply' = ValueError("start")
            /\ UNCHANGED <<ACTIVE_RUN, RUN_CV, nruns, admitted, dispatched>>
       ELSE LET run == rr_RunState(req, rr_load_jobs(DATA_DIR[req.dataset_file]))
            IN  /\ ACTIVE_RUN' = run
                /\ RUN_CV' = notify_all(RUN_CV)
                /\ nruns' = nruns + 1
                /\ admitted' = run.ready_q
                /\ dispatched' = <<>>
                /\ reply' = Reply("start", <<>>, 200, "ok", None)
    /\ UNCHANGED ARRIVAL_THREADS

rr_wait_ms_late(run, now_sim_ms, remaining_req_ms) == remaining_req_ms + 1
\* wait_time of next_slice in whole ms: min(remaining_req, wait_until_arrival)
rr_wait_ms(run, now_sim_ms, remaining_req_ms) ==
    IF run.pending_idx < Len(run.pending_ids)
    THEN LET next_arr_sim == run.jobs[run.pending_ids[run.pending_idx + 1]].arrival_ms
             delta_sim == Max(0, next_arr_sim - now_sim_ms)
             wait_until_arrival == Max(1, (delta_sim * run.speedup.den) \div run.speedup.num)
         IN  Min(remaining_req_ms, wait_until_arrival)
    ELSE remaining_req_ms

\* the body of next_slice's `with RUN_CV: while True:` loop, once
rr_next_loop(s, deadline, cv) ==
    LET run == ACTIVE_RUN IN
    IF run = NoRun
    THEN NextReturns(s, cv, "no_run") /\ UNCHANGED <<ACTIVE_RUN, admitted>>
    ELSE IF run.done \/ run.completed >= run.total_jobs
    THEN NextReturns(s, cv, "done") /\ UNCHANGED <<ACTIVE_RUN, admitted>>
    ELSE LET now_sim_ms == wall_to_sim(run, now)
             run1 == release_arrivals(run, now_sim_ms)
         IN  /\ admitted' = admitted \o Released(run, run1)
             /\ IF run1.ready_q # <<>>
                THEN LET jid == popleft(run1.ready_q).item
                         job == run1.jobs[jid]
                         slice_ms == Min(run1.quantum_ms, job.remaining_ms)
                     IN  /\ ACTIVE_RUN' = [run1 EXCEPT !.ready_q = popleft(@).rest]
                         /\ NextDispatches(s, cv, run, jid, slice_ms, job.remaining_ms, jid)
                ELSE IF deadline - now <= 0
                THEN NextReturns(s, cv, "wait") /\ ACTIVE_RUN' = run1
                ELSE /\ NextWaits(s, cv, deadline, rr_wait_ms(run1, now_sim_ms, deadline - now))
                     /\ ACTIVE_RUN' = run1

rr_next_slice(s, req) ==
    IF ~ is_alive_worker_core(req.worker_id, req.core_id)
    THEN /\ reply' = Reply("next", s, 400, None, None)
         /\ UNCHANGED <<ACTIVE_RUN, RUN_CV, slot, admitted, dispatched>>
    ELSE rr_next_loop(s, now + req.timeout_ms, RUN_CV)

\* finalize_run: the row of a job in the jobs CSV (integer columns)
rr_row(job) ==
    LET response == job.finish_ms - job.arrival_ms IN
    [job_id |-> job.job_id,
     service_time_ms |-> job.service_ms,
     arrival_time_ms |-> job.arrival_ms,
     first_start_time_ms |-> IF job.first_start_ms # Unset THEN job.first_start_ms ELSE 0,
     finish_time_ms |-> job.finish_ms,
     response_time_ms |-> response,
     waiting_time_ms |-> response - job.service_ms,
     slices |-> job.slices,
     preemptions |-> job.preemptions]

\* finalize_run leaves by an exception of os.makedirs or to_csv
rr_finalize_raises(run) == to_csv_raises

rr_finalize_run(run) ==
    LET rows == {j \in DOMAIN run.jobs : run.jobs[j].finish_ms # Unset}
    IN  [run EXCEPT !.jobs_df = [j \in rows |-> rr_row(run.jobs[j])],
                    !.jobs_csv = results_path("results_jobs", run),
                    !.run_csv = results_path("results_run", run),
                    !.summary = [jobs |-> Cardinality(rows)],
                    !.done = TRUE]

rr_done(req) ==
    LET run == ACTIVE_RUN
        s == <<req.worker_id, req.core_id>>
    IN
    /\ UNCHANGED <<dispatched>>
    /\ IF ~ is_alive_worker_core(req.worker_id, req.core_id)
       THEN /\ reply' = Reply("done", s, 400, None, req.job_id)
            /\ UNCHANGED <<ACTIVE_RUN, RUN_CV, admitted>>
       ELSE IF run = NoRun
       THEN /\ reply' = Reply("done", s, 200, "no_run", req.job_id)
            /\ UNCHANGED <<ACTIVE_RUN, RUN_CV, admitted>>
       ELSE IF run.done
       THEN /\ reply' = Reply("done", s, 200, "done", req.job_id)
            /\ UNCHANGED <<ACTIVE_RUN, RUN_CV, admitted>>
       ELSE IF req.job_id \notin DOMAIN run.jobs
       THEN unknown_job_id(s, req) /\ UNCHANGED admitted
       ELSE LET job == run.jobs[req.job_id]
                started_sim == wall_to_sim(run, req.started_wall_ms)
                finished_sim == wall_to_sim(run, req.finished_wall_ms)
                remaining_ms == Max(0, req.remaining_after_ms)
                job1 == [job EXCEPT !.first_start_ms = IF @ = Unset THEN started_sim ELSE @,
                                    !.slices = @ + 1,
                                    !.remaining_ms = remaining_ms]
                run1 == IF remaining_ms = 0
                        THEN [run EXCEPT !.jobs[req.job_id] =
                                             [job1 EXCEPT !.finish_ms = finished_sim],
                                         !.completed = @ + 1]
                        ELSE [run EXCEPT !.jobs[req.job_id] =
                                             [job1 EXCEPT !.preemptions = @ + 1],
                                         !.ready_q = rr_requeue(@, job.job_id)]
                cv1 == IF remaining_ms = 0 THEN RUN_CV ELSE notify_all(RUN_CV)
            IN  /\ admitted' = IF remaining_ms = 0 THEN admitted
                               ELSE Append(admitted, job.job_id)
                /\ IF run1.completed >= run1.total_jobs
                   THEN IF rr_finalize_raises(run1)
                        THEN /\ ACTIVE_RUN' = run1
                             /\ RUN_CV' = cv1
                             /\ reply' = OSError(s, req)
                        ELSE /\ ACTIVE_RUN' = rr_finalize_run(run1)
                             /\ RUN_CV' = notify_all(cv1)
                             /\ reply' = Reply("done", s, 200, "ok", req.job_id)
                   ELSE /\ ACTIVE_RUN' = run1
                        /\ RUN_CV' = cv1
                        /\ reply' = Reply("done", s, 200, "ok", req.job_id)

-----------------------------------------------------------------------------
(* The worker process (src/fifo/worker.py; the other workers differ only   *)
(* in the fields of the assignment and of the /done event)                 *)

\* the service's endpoint, by the scheduler that is running
start(req) ==
    CASE policy = "fifo" -> fifo_start(req)
      [] policy = "priority" -> prio_start(req)
      [] policy = "rr_basic" -> rr0_start(req)
      [] policy = "rr" -> rr_start(req)

next_job(s, req) ==
    CASE policy = "fifo" -> fifo_next_job(s, req)
      [] policy = "priority" -> prio_next_job(s, req)
      [] policy = "rr_basic" -> rr0_next_slice(s, req)
      [] policy = "rr" -> rr_next_slice(s, req)

next_loop(s, deadline, cv) ==
    CASE policy = "fifo" -> fifo_next_loop(s, deadline, cv)
      [] policy = "priority" -> prio_next_loop(s, deadline, cv)
      [] policy = "rr_basic" -> rr0_next_loop(s, deadline, cv)
      [] policy = "rr" -> rr_next_loop(s, deadline, cv)

done(req) ==
    CASE policy = "fifo" -> fifo_done(req)
      [] policy = "priority" -> prio_done(req)
      [] policy = "rr_basic" -> rr0_done(req)
      [] policy = "rr" -> rr_done(req)

\* GET /status: reads the active run under RUN_LOCK
status ==
    IF ACTIVE_RUN = NoRun THEN [status |-> "no_run"]
    ELSE IF ACTIVE_RUN.done
    THEN [status |-> "done", run_id |-> ACTIVE_RUN.run_id, summary |-> ACTIVE_RUN.summary,
          jobs_csv |-> ACTIVE_RUN.jobs_csv, run_csv |-> ACTIVE_RUN.run_csv]
    ELSE IF policy = "priority"
    THEN [status |-> "running", run_id |-> ACTIVE_RUN.run_id,
          completed |-> ACTIVE_RUN.completed, total |-> ACTIVE_RUN.total_jobs,
          ready |-> Cardinality(ACTIVE_RUN.ready_heap),
          pending |-> Cardinality(ACTIVE_RUN.pending_heap)]
    ELSE IF policy \in {"rr_basic", "rr"}
    THEN [status |-> "running", run_id |-> ACTIVE_RUN.run_id,
          completed |-> ACTIVE_RUN.completed, total |-> ACTIVE_RUN.total_jobs,
          quantum_ms |-> ACTIVE_RUN.quantum_ms]
    ELSE [status |-> "running", run_id |-> ACTIVE_RUN.run_id,
          completed |-> ACTIVE_RUN.completed, total |-> ACTIVE_RUN.total_jobs]

\* main_loop: POST /register, then the heartbeat loop and one driver per core
WorkerBoot(w) ==
    /\ \A s \in Slots : s[1] = w => slot[s].pc = "off"
    /\ WORKERS' = register(w, CORES)
    /\ slot' = [s \in Slots |-> IF s[1] = w /\ s[2] < CORES THEN Polling ELSE slot[s]]
    /\ reply' = Reply("register", <<w>>, 200, "ok", None)
    /\ UNCHANGED <<now, policy, ACTIVE_RUN, RUN_CV, ARRIVAL_THREADS, nruns, cfg,
                   admitted, dispatched>>

\* heartbeat_loop: POST /heartbeat
WorkerHeartbeat(w) ==
    /\ slot[<<w, 0>>].pc # "off"
    /\ WORKERS' = heartbeat(w)
    /\ reply' = Reply("heartbeat", <<w>>, 200,
                      IF w \in DOMAIN WORKERS THEN "ok" ELSE "unknown", None)
    /\ UNCHANGED <<now, policy, ACTIVE_RUN, RUN_CV, ARRIVAL_THREADS, nruns, cfg,
                   slot, admitted, dispatched>>

\* core_driver: POST /next
DriverNext(s, timeout_ms) ==
    /\ slot[s].pc = "poll"
    /\ LET req == [worker_id |-> s[1], core_id |-> s[2], timeout_ms |-> timeout_ms]
       IN  next_job(s, req)
    /\ UNCHANGED <<now, policy, WORKERS, ARRIVAL_THREADS, nruns, cfg>>

\* a caller asleep in RUN_CV.wait resumes, notified or timed out, and loops
WaiterResumes(s) ==
    /\ slot[s].pc = "blocked"
    /\ s \in RUN_CV.woken \/ now >= slot[s].wake
    /\ next_loop(s, slot[s].deadline, Resume(RUN_CV, s))
    /\ UNCHANGED <<now, policy, WORKERS, ARRIVAL_THREADS, nruns, cfg>>

\* core_thread: takes the assignment and reads the clock
CoreStarts(s) ==
    /\ slot[s].pc = "assigned"
    /\ slot' = [slot EXCEPT ![s].pc = "running", ![s].started_wall_ms = now]
    /\ UNCHANGED <<now, policy, WORKERS, ACTIVE_RUN, RUN_CV, ARRIVAL_THREADS, nruns,
                   cfg, reply, admitted, dispatched>>

\* time.sleep(work_ms / 1000.0 / SPEEDUP), in whole ms
SleepMs(work_ms) == (work_ms * SPEEDUP.den) \div SPEEDUP.num

\* core_thread: the sleep is over; the event goes to done_qs[core_id]
CoreFinishes(s) ==
    /\ slot[s].pc = "running"
    /\ now >= slot[s].started_wall_ms + SleepMs(slot[s].work_ms)
    /\ slot' = [slot EXCEPT ![s].pc = "report", ![s].finished_wall_ms = now]
    /\ UNCHANGED <<now, policy, WORKERS, ACTIVE_RUN, RUN_CV, ARRIVAL_THREADS, nruns,
                   cfg, reply, admitted, dispatched>>

DoneEvent(s) ==
    [worker_id |-> s[1], core_id |-> s[2], job_id |-> slot[s].job_id,
     ran_ms |-> slot[s].work_ms,
     remaining_after_ms |-> Max(0, slot[s].remaining_before_ms - slot[s].work_ms),
     started_wall_ms |-> slot[s].started_wall_ms,
     finished_wall_ms |-> slot[s].finished_wall_ms]

\* core_driver: POST /done with the event, whatever the answer
DriverDone(s) ==
    /\ slot[s].pc = "report"
    /\ done(DoneEvent(s))
    /\ slot' = [slot EXCEPT ![s] = Polling]
    /\ UNCHANGED <<now, policy, WORKERS, ARRIVAL_THREADS, nruns, cfg>>

Tick ==
    /\ now < MaxWall
    /\ now' = now + 1
    /\ UNCHANGED <<policy, WORKERS, ACTIVE_RUN, RUN_CV, ARRIVAL_THREADS, nruns, cfg,
                   slot, reply, admitted, dispatched>>

\* the /start requests of the experiment (submit_runs.py: one per quantum)
StartReqs ==
    {[dataset_file |-> cfg.dataset_file, speedup |-> cfg.speedup, min_slots |-> 1,
      quantum_ms |-> q] : q \in cfg.quanta}

Start(req) ==
    /\ nruns < MaxRuns
    /\ start(req)
    /\ UNCHANGED <<now, policy, WORKERS, cfg, slot>>

\* `while not run.done:` is false: the thread of run r returns
arrival_thread_returns(r) ==
    /\ thread_run_done(r)
    /\ ARRIVAL_THREADS' = [x \in DOMAIN ARRIVAL_THREADS \ {r} |-> ARRIVAL_THREADS[x]]
    /\ UNCHANGED <<now, policy, WORKERS, ACTIVE_RUN, RUN_CV, nruns, cfg, slot, reply,
                   admitted, dispatched>>

\* one iteration of an arrival thread.  `while not run.done` is tested outside
\* RUN_CV: a thread that found the run unfinished may take the lock only after
\* /done finalized the run (late), runs its pass all the same and returns at
\* its next test.  The passes of the thread of a replaced run work on a
\* RunState no handler reaches any more.
ArrivalThread ==
    \E r \in DOMAIN ARRIVAL_THREADS, late \in BOOLEAN :
        IF thread_run_done(r) /\ ~ late THEN arrival_thread_returns(r)
        ELSE /\ ACTIVE_RUN # NoRun /\ ACTIVE_RUN.run_id = r
             /\ late = ACTIVE_RUN.done
             /\ IF policy = "fifo" THEN fifo_arrival_thread_func
                                   ELSE prio_arrival_thread_func
             /\ ARRIVAL_THREADS' =
                    IF late THEN [x \in DOMAIN ARRIVAL_THREADS \ {r} |-> ARRIVAL_THREADS[x]]
                    ELSE ARRIVAL_THREADS

-----------------------------------------------------------------------------
InitCommon ==
    /\ now = 0
    /\ WORKERS = <<>>
    /\ ACTIVE_RUN = NoRun
    /\ RUN_CV = [waiters |-> <<>>, woken |-> {}]
    /\ ARRIVAL_THREADS = <<>>
    /\ nruns = 0
    /\ slot = [s \in Slots |-> Off]
    /\ reply = NoReply
    /\ admitted = <<>>
    /\ dispatched = <<>>

Config(f, sp, c, qs) ==
    [dataset_file |-> f, speedup |-> sp, cores |-> c, quanta |-> qs, results_dir |-> "rw"]

FifoConfigs ==
    {Config("seq.csv", Speedup(1, 1), 2, {0}),
     Config("late.csv", Speedup(2, 1), 1, {0})}

InitFifo == InitCommon /\ policy = "fifo" /\ cfg \in FifoConfigs

NextFifo ==
    \/ Tick
    \/ \E w \in WorkerIds : WorkerBoot(w)
    \/ \E w \in WorkerIds : WorkerHeartbeat(w)
    \/ \E req \in StartReqs : Start(req)
    \/ ArrivalThread
    \/ \E s \in Slots, t \in 1 .. MaxTimeoutMs : DriverNext(s, t)
    \/ \E s \in Slots : WaiterResumes(s)
    \/ \E s \in Slots : CoreStarts(s)
    \/ \E s \in Slots : CoreFinishes(s)
    \/ \E s \in Slots : DriverDone(s)

SpecFifo == InitFifo /\ [][NextFifo]_vars

PrioConfigs ==
    {Config("prio.csv", Speedup(2, 1), 1, {0}),
     Config("same.csv", Speedup(5, 1), 2, {0}),
     Config("tie.csv", Speedup(2, 1), 1, {0})}

InitPrio == InitCommon /\ policy = "priority" /\ cfg \in PrioConfigs

NextPrio ==
    \/ Tick
    \/ \E w \in WorkerIds : WorkerBoot(w)
    \/ \E w \in WorkerIds : WorkerHeartbeat(w)
    \/ \E req \in StartReqs : Start(req)
    \/ ArrivalThread
    \/ \E s \in Slots, t \in 1 .. MaxTimeoutMs : DriverNext(s, t)
    \/ \E s \in Slots : WaiterResumes(s)
    \/ \E s \in Slots : CoreStarts(s)
    \/ \E s \in Slots : CoreFinishes(s)
    \/ \E s \in Slots : DriverDone(s)

SpecPrio == InitPrio /\ [][NextPrio]_vars

RRBasicConfigs ==
    {Config("ab.csv", Speedup(20, 1), 1, {20}),
     Config("seq.csv", Speedup(1, 1), 2, {1})}

RRConfigs ==
    {Config("ab.csv", Speedup(20, 1), 1, {20}),
     Config("seq.csv", Speedup(1, 1), 2, {1})}

InitRR ==
    /\ InitCommon
    /\ \/ policy = "rr_basic" /\ cfg \in RRBasicConfigs
       \/ policy = "rr" /\ cfg \in RRConfigs

\* the round-robin services have no arrival thread
NextRR ==
    \/ Tick
    \/ \E w \in WorkerIds : WorkerBoot(w)
    \/ \E w \in WorkerIds : WorkerHeartbeat(w)
    \/ \E req \in StartReqs : Start(req)
    \/ \E s \in Slots, t \in 1 .. MaxTimeoutMs : DriverNext(s, t)
    \/ \E s \in Slots : WaiterResumes(s)
    \/ \E s \in Slots : CoreStarts(s)
    \/ \E s \in Slots : CoreFinishes(s)
    \/ \E s \in Slots : DriverDone(s)

SpecRR == InitRR /\ [][NextRR]_vars

\* the services that admit jobs by arrival time, on a dataset whose second job
\* arrives late: one core, 1000 simulated ms are 2 ms of wall time
GapConfigs == {Config("gap.csv", Speedup(500, 1), 1, {20})}

InitGap ==
    /\ InitCommon
    /\ policy \in {"fifo", "priority", "rr"}
    /\ cfg \in GapConfigs

\* any of the four services
InitAll == InitFifo \/ InitPrio \/ InitRR \/ InitGap

NextAll ==
    \/ Tick
    \/ \E w \in WorkerIds : WorkerBoot(w)
    \/ \E w \in WorkerIds : WorkerHeartbeat(w)
    \/ \E req \in StartReqs : Start(req)
    \/ ArrivalThread
    \/ \E s \in Slots, t \in 1 .. MaxTimeoutMs : DriverNext(s, t)
    \/ \E s \in Slots : WaiterResumes(s)
    \/ \E s \in Slots : CoreStarts(s)
    \/ \E s \in Slots : CoreFinishes(s)
    \/ \E s \in Slots : DriverDone(s)

SpecAll == InitAll /\ [][NextAll]_vars

\* requests from clients other than the running core drivers: a worker that
\* never registered, a core id the worker does not have, and a /done naming a
\* job of another dataset
ClientIds == {"w1", "w9"}
CoreIds == {-1, 0, 1}
JobIds == {"A", "Z"}

\* no core driver of the worker processes speaks for (w, c)
NoDriver(w, c) == IF <<w, c>> \in Slots THEN slot[<<w, c>>].pc = "off" ELSE TRUE

OtherNext(w, c) ==
    /\ NoDriver(w, c)
    /\ ~ is_alive_worker_core(w, c)
    /\ reply' = Reply("next", <<w, c>>, 400, None, None)
    /\ UNCHANGED <<now, policy, WORKERS, ACTIVE_RUN, RUN_CV, ARRIVAL_THREADS, nruns,
                   cfg, slot, admitted, dispatched>>

OtherDone(w, c, jid) ==
    /\ NoDriver(w, c) \/ jid \notin {r.job_id : r \in Range(DATA_DIR[cfg.dataset_file].rows)}
    /\ done([worker_id |-> w, core_id |-> c, job_id |-> jid, ran_ms |-> 0,
             remaining_after_ms |-> 0, started_wall_ms |-> now,
             finished_wall_ms |-> now])
    /\ UNCHANGED <<now, policy, WORKERS, ARRIVAL_THREADS, nruns, cfg, slot>>

\* a /start for a file that is not in DATA_DIR, or that lacks columns, or that
\* asks for more slots than the worker has
OtherStartReqs ==
    {[dataset_file |-> f, speedup |-> cfg.speedup, min_slots |-> m, quantum_ms |-> q] :
        f \in {cfg.dataset_file, "bad.csv", "none.csv"}, m \in {1, 3}, q \in cfg.quanta}
     \ StartReqs

ClientConfigs == {Config("seq.csv", Speedup(1, 1), 1, {1})}

InitClients ==
    /\ InitCommon
    /\ policy \in {"fifo", "priority", "rr_basic", "rr"}
    /\ cfg \in ClientConfigs

NextClients ==
    \/ NextAll
    \/ \E req \in OtherStartReqs : Start(req)
    \/ \E w \in ClientIds, c \in CoreIds : OtherNext(w, c)
    \/ \E w \in ClientIds, c \in CoreIds, jid \in JobIds : OtherDone(w, c, jid)

SpecClients == InitClients /\ [][NextClients]_vars

\* any of the four services with a results directory that cannot be written
FaultConfigs ==
    {[Config("seq.csv", Speedup(1, 1), 1, {1}) EXCEPT !.results_dir = "ro"]}

InitFaults ==
    /\ InitCommon
    /\ policy \in {"fifo", "priority", "rr_basic", "rr"}
    /\ cfg \in FaultConfigs

SpecFaults == InitFaults /\ [][NextAll]_vars

\* the registry endpoints, called by any client with any integer cores
\* (RegisterReq.cores: int is not validated)
CoresValues == {-1, 0, 1, 2}

Register(w, c) ==
    /\ WORKERS' = register(w, c)
    /\ reply' = Reply("register", <<w>>, 200, "ok", None)
    /\ UNCHANGED <<now, policy, ACTIVE_RUN, RUN_CV, ARRIVAL_THREADS, nruns, cfg,
                   slot, admitted, dispatched>>

Heartbeat(w) ==
    /\ WORKERS' = heartbeat(w)
    /\ reply' = Reply("heartbeat", <<w>>, 200,
                      IF w \in DOMAIN WORKERS THEN "ok" ELSE "unknown", None)
    /\ UNCHANGED <<now, policy, ACTIVE_RUN, RUN_CV, ARRIVAL_THREADS, nruns, cfg,
                   slot, admitted, dispatched>>

\* GET /workers
workers ==
    LET alive == {w \in DOMAIN WORKERS : now - WORKERS[w].last_seen <= WORKER_TIMEOUT_MS}
    IN  [worker_count |-> Cardinality(alive),
         total_slots |-> SumCores(alive),
         workers |-> {[worker_id |-> w, cores |-> WORKERS[w].cores] : w \in alive}]

InitRegistry ==
    /\ InitCommon
    /\ policy = "fifo"
    /\ cfg \in ClientConfigs

NextRegistry ==
    \/ Tick
    \/ \E w \in ClientIds, c \in CoresValues : Register(w, c)
    \/ \E w \in ClientIds : Heartbeat(w)
    \/ \E req \in StartReqs \cup OtherStartReqs : Start(req)

SpecRegistry == InitRegistry /\ [][NextRegistry]_vars

-----------------------------------------------------------------------------
(* Claims                                                                  *)

\* the job ids of a history of dispatches
Ids(h) == [i \in 1 .. Len(h) |-> h[i][1]]
IsPrefix(a, b) == Len(a) <= Len(b) /\ \A i \in 1 .. Len(a) : a[i] = b[i]
Running == ACTIVE_RUN # NoRun /\ ~ ACTIVE_RUN.done

\* C1: FIFO: jobs leave the ready queue in admission order: the jobs /next has
\* returned are, in order, the first jobs that were appended to the ready queue.
C1_FifoAdmissionOrder ==
    policy = "fifo" => IsPrefix(Ids(dispatched), admitted)

\* three jobs were dispatched, two of them admitted by the arrival thread
C1_Witness ==
    /\ policy = "fifo"
    /\ cfg.dataset_file = "late.csv"
    /\ Ids(dispatched) = <<"C", "B", "A">>

\* the (priority, arrival_ms, sequence) key of a ready-heap entry, compared
KeyLess(a, b) ==
    \/ a[1] < b[1]
    \/ a[1] = b[1] /\ a[2] < b[2]
    \/ a[1] = b[1] /\ a[2] = b[2] /\ a[3] < b[3]

\* C2: priority: whenever /next returns ok with job J, no entry left in the ready
\* heap at that instant has a strictly smaller (priority, arrival_ms, sequence)
\* key than J's; with A(prio 10), B(prio 1), C(prio 5) all arriving at 0 the
\* dispatch order is B, C, A; and when two jobs of the same priority with
\* arrivals 0 and 5 are both ready, the arrival-0 job is the one dispatched.
C2_PriorityNonInversion ==
    [][ (policy = "priority" /\ Len(dispatched') = Len(dispatched) + 1) =>
          LET J == dispatched'[Len(dispatched')][3] IN
          /\ \A e \in ACTIVE_RUN'.ready_heap : ~ KeyLess(e, J)
          /\ cfg.dataset_file = "prio.csv" =>
                IsPrefix(Ids(dispatched'), <<"B", "C", "A">>)
          /\ \A e \in ACTIVE_RUN'.ready_heap :
                (e[1] = J[1] /\ {e[2], J[2]} = {0, 5}) => J[2] = 0
      ]_vars

\* B, C and A were dispatched, in that order
C2_Witness ==
    /\ policy = "priority"
    /\ cfg.dataset_file = "prio.csv"
    /\ Ids(dispatched) = <<"B", "C", "A">>

\* the position of a job in the dataset (the dict's insertion order)
RowIndex(run, jid) == CHOOSE i \in 1 .. Len(run.job_keys) : run.job_keys[i] = jid

\* C3: priority: jobs of equal priority and equal arrival_ms are dispatched in
\* dataset row order, promoted jobs included, and the sequence numbers in the
\* ready heap are pairwise distinct.
C3_PriorityTieBreak ==
    (policy = "priority" /\ ACTIVE_RUN # NoRun) =>
        LET run == ACTIVE_RUN IN
        /\ \A i, j \in 1 .. Len(dispatched) :
              (/\ i < j
               /\ dispatched[i][3][1] = dispatched[j][3][1]
               /\ dispatched[i][3][2] = dispatched[j][3][2])
              => RowIndex(run, dispatched[i][1]) < RowIndex(run, dispatched[j][1])
        /\ \A e1, e2 \in run.ready_heap : e1 # e2 => e1[3] # e2[3]
        /\ \A e1, e2 \in run.ready_heap :
              (e1[1] = e2[1] /\ e1[2] = e2[2] /\ e1[3] < e2[3])
              => RowIndex(run, e1[4]) < RowIndex(run, e2[4])

\* B and A (same priority, same arrival 1, B's row first) were promoted from the
\* pending heap and dispatched
C3_Witness ==
    /\ policy = "priority"
    /\ cfg.dataset_file = "tie.csv"
    /\ Ids(dispatched) = <<"C", "B", "A">>
    /\ ACTIVE_RUN.next_seq = 5

\* the job ids that entered the ready queue in this step
NewlyAdmitted == SubSeq(admitted', Len(admitted) + 1, Len(admitted'))
RoundRobin == policy \in {"rr_basic", "rr"}

\* C4: round-robin (both services): /next dispatches the head of the ready
\* queue, and a /done that leaves remaining work > 0 puts the job at the tail.
\* When the first run of a scheduler with quantum 20, one core, A(50) and B(30)
\* arriving at 0 has completed, its slices were A(20), B(20), A(20), B(10), A(10),
\* A.slices = 3 and B.slices = 2, and B did not finish after A.
C4_RoundRobinOrder ==
    [][ RoundRobin =>
          /\ Len(dispatched') = Len(dispatched) + 1 =>
                LET q == ACTIVE_RUN.ready_q \o NewlyAdmitted IN
                /\ dispatched'[Len(dispatched')][1] = Head(q)
                /\ ACTIVE_RUN'.ready_q = Tail(q)
          /\ (/\ reply'.op = "done" /\ reply'.status = "ok"
              /\ \E s \in Slots : /\ slot[s].pc = "report" /\ slot'[s].pc = "poll"
                                   /\ slot[s].remaining_before_ms - slot[s].work_ms > 0) =>
                ACTIVE_RUN'.ready_q = Append(ACTIVE_RUN.ready_q, reply'.job_id)
          /\ (cfg.dataset_file = "ab.csv" /\ nruns' = 1 /\ ACTIVE_RUN'.done) =>
                /\ [i \in 1 .. Len(dispatched') |->
                       <<dispatched'[i][1], dispatched'[i][2]>>]
                   = <<<<"A", 20>>, <<"B", 20>>, <<"A", 20>>, <<"B", 10>>, <<"A", 10>>>>
                /\ ACTIVE_RUN'.jobs["A"].slices = 3
                /\ ACTIVE_RUN'.jobs["B"].slices = 2
                /\ ACTIVE_RUN'.jobs["B"].finish_ms <= ACTIVE_RUN'.jobs["A"].finish_ms
                /\ ~ ACTIVE_RUN.done => reply'.job_id = "A"
      ]_vars

\* the run of A(50), B(30) with quantum 20 on one core is finished after five
\* slices
C4_Witness ==
    /\ RoundRobin
    /\ cfg.dataset_file = "ab.csv"
    /\ nruns = 1
    /\ ACTIVE_RUN.done
    /\ Len(dispatched) = 5
    /\ ACTIVE_RUN.jobs["A"].slices = 3

\* the sum of the slice_ms dispatched for job jid in a history of dispatches
RECURSIVE SliceSum(_, _)
SliceSum(h, jid) ==
    IF h = <<>> THEN 0
    ELSE (IF Head(h)[1] = jid THEN Head(h)[2] ELSE 0) + SliceSum(Tail(h), jid)

\* C5: round-robin: every job with finish_ms set was dispatched slices that sum
\* to its service_ms, and has preemptions = slices - 1.
C5_SliceConservation ==
    (RoundRobin /\ ACTIVE_RUN # NoRun) =>
        \A j \in DOMAIN ACTIVE_RUN.jobs :
            LET job == ACTIVE_RUN.jobs[j] IN
            job.finish_ms # Unset =>
                /\ SliceSum(dispatched, j) = job.service_ms
                /\ job.preemptions = job.slices - 1

\* C6: FIFO and priority: every job with finish_ms set has
\* finish_ms - start_ms = service_ms.
C6_ServiceConservation ==
    (policy \in {"fifo", "priority"} /\ ACTIVE_RUN # NoRun) =>
        \A j \in DOMAIN ACTIVE_RUN.jobs :
            LET job == ACTIVE_RUN.jobs[j] IN
            job.finish_ms # Unset => job.finish_ms - job.start_ms = job.service_ms

\* the recorded start of a job: start_ms, or first_start_ms under round-robin
StartOf(job) == IF RoundRobin THEN job.first_start_ms ELSE job.start_ms

\* C7: arrival causality: every job whose start is recorded has
\* start_ms >= arrival_ms.
C7_ArrivalCausality ==
    ACTIVE_RUN # NoRun =>
        \A j \in DOMAIN ACTIVE_RUN.jobs :
            LET job == ACTIVE_RUN.jobs[j] IN
            StartOf(job) # Unset => StartOf(job) >= job.arrival_ms

\* C8: completeness: when a run is finalized (done), every job of it has
\* finish_ms set and the summary's jobs field is the dataset's row count.
C8_Completeness ==
    (ACTIVE_RUN # NoRun /\ ACTIVE_RUN.done) =>
        /\ \A j \in DOMAIN ACTIVE_RUN.jobs : ACTIVE_RUN.jobs[j].finish_ms # Unset
        /\ ACTIVE_RUN.summary.jobs = Len(DATA_DIR[ACTIVE_RUN.dataset_file].rows)

InFlight(s) == slot[s].pc \in {"assigned", "running", "report"}
NoDuplicates(q) == \A i, j \in 1 .. Len(q) : i # j => q[i] # q[j]

\* C9: no two cores hold the same job of the run in flight; under FIFO and
\* priority a job is dispatched at most once per run; under round-robin the
\* ready queue never holds the same job id twice.
C9_SingleDispatch ==
    ACTIVE_RUN # NoRun =>
        /\ \A s1, s2 \in Slots :
              (/\ s1 # s2 /\ InFlight(s1) /\ InFlight(s2)
               /\ slot[s1].run_id = ACTIVE_RUN.run_id
               /\ slot[s2].run_id = ACTIVE_RUN.run_id)
              => slot[s1].job_id # slot[s2].job_id
        /\ ~ RoundRobin => NoDuplicates(Ids(dispatched))
        /\ RoundRobin => NoDuplicates(ACTIVE_RUN.ready_q)

\* the ready set of the active run is not empty
ReadyNonEmpty ==
    IF policy = "priority" THEN ACTIVE_RUN.ready_heap # {} ELSE ACTIVE_RUN.ready_q # <<>>
Blocked == {s \in Slots : slot[s].pc = "blocked"}
\* a sleeping caller that does not stay asleep until its deadline: it was
\* notified, or the timeout it passed to RUN_CV.wait has run out, or that timeout
\* ends before the deadline (round-robin: at the next arrival)
CanResume(s) ==
    s \in RUN_CV.woken \/ now >= slot[s].wake \/ slot[s].wake < slot[s].deadline

\* C10: no lost wakeup: while the active run is unfinished and its ready set is
\* non-empty, the /next callers asleep in RUN_CV.wait are not all left sleeping
\* towards their deadlines: one of them has been notified (by start, by a
\* promotion or by a requeue) or has its wait over, and resumes to take a job;
\* /next answers "wait" only when the ready set is empty; and a /next request
\* that arrives while the ready set is non-empty does not go to sleep.
C10_NoLostWakeup ==
    [][ /\ (Running /\ ACTIVE_RUN.completed < ACTIVE_RUN.total_jobs
            /\ ReadyNonEmpty /\ Blocked # {})
           => \E s \in Blocked : CanResume(s)
        /\ (reply'.op = "next" /\ reply'.status = "wait" /\ reply' # reply /\ Running')
           => ~ ReadyNonEmpty'
        /\ (Running /\ ACTIVE_RUN.completed < ACTIVE_RUN.total_jobs /\ ReadyNonEmpty)
           => \A s \in Slots : slot[s].pc = "poll" => slot'[s].pc # "blocked"
      ]_vars

\* a caller is asleep in RUN_CV.wait, notified because a job entered the ready
\* set after it went to sleep
C10_Witness ==
    /\ Running
    /\ ReadyNonEmpty
    /\ \E s \in Blocked : s \in RUN_CV.woken /\ now < slot[s].wake
    /\ Len(admitted) > Len(dispatched)
    /\ Len(dispatched) > 0

\* the outcome of one pass of /next's loop for caller s with the given deadline,
\* as the claim has it
NextOutcome(s, deadline) ==
    IF ACTIVE_RUN = NoRun
    THEN reply' = Reply("next", s, 200, "no_run", None) /\ slot'[s].pc = "poll"
    ELSE IF ACTIVE_RUN.done \/ ACTIVE_RUN.completed >= ACTIVE_RUN.total_jobs
    THEN /\ reply' = Reply("next", s, 200, "done", None)
         /\ slot'[s].pc = "poll"
         /\ dispatched' = dispatched
    ELSE \/ /\ Len(dispatched') = Len(dispatched) + 1
            /\ reply' = Reply("next", s, 200, "ok", dispatched'[Len(dispatched')][1])
            /\ slot'[s].pc = "assigned"
            /\ slot'[s].job_id = reply'.job_id
         \/ /\ ~ ReadyNonEmpty /\ ~ ReadyNonEmpty'
            /\ dispatched' = dispatched
            /\ IF deadline <= now
               THEN reply' = Reply("next", s, 200, "wait", None) /\ slot'[s].pc = "poll"
               ELSE /\ slot'[s].pc = "blocked"
                    /\ slot'[s].deadline = deadline
                    /\ slot'[s].wake <= deadline

\* C11: for an alive (worker, core), /next answers no_run without an active run,
\* done when the run is finalized or completed >= total_jobs (before any
\* dispatch), ok with exactly one job when the ready set is non-empty, and
\* otherwise wait once its deadline is reached; a sleeping caller's wait never
\* extends past its deadline.
C11_NextOutcomes ==
    [][ \A s \in Slots :
          /\ \A t \in 1 .. MaxTimeoutMs :
                (DriverNext(s, t) /\ is_alive_worker_core(s[1], s[2]))
                => NextOutcome(s, now + t)
          /\ WaiterResumes(s) => NextOutcome(s, slot[s].deadline)
      ]_vars

\* /next answered done although the ready set of the run is not empty
C11_Witness ==
    /\ reply.op = "next" /\ reply.status = "done"
    /\ ACTIVE_RUN # NoRun
    /\ ReadyNonEmpty

\* the arrival times of the jobs still in the pending set of a run
PendingArrivals(run) ==
    CASE policy = "fifo" -> {run.jobs[j].arrival_ms : j \in Range(run.pending_jobs)}
      [] policy = "priority" -> {e[1] : e \in run.pending_heap}
      [] policy = "rr" ->
            {run.jobs[run.pending_ids[i]].arrival_ms :
                i \in run.pending_idx + 1 .. Len(run.pending_ids)}
      [] policy = "rr_basic" -> {}
Unfinished == Running /\ ACTIVE_RUN.completed < ACTIVE_RUN.total_jobs

\* C12: every /next and every accepted /done on an unfinished run leaves no
\* pending job whose arrival_ms is <= the current simulated time: the call
\* itself promotes what is due, whatever the arrival thread does.
C12_OpportunisticPromotion ==
    [][ \A s \in Slots :
          (/\ Unfinished
           /\ \/ \E t \in 1 .. MaxTimeoutMs :
                    DriverNext(s, t) /\ is_alive_worker_core(s[1], s[2])
              \/ WaiterResumes(s)
              \/ DriverDone(s) /\ reply'.code = 200)
          => \A a \in PendingArrivals(ACTIVE_RUN') : a > wall_to_sim(ACTIVE_RUN', now)
      ]_vars

\* the run of gap.csv: A arrives at 0 and B at 1000 simulated ms, one core
GapRun == ACTIVE_RUN # NoRun /\ ACTIVE_RUN.dataset_file = "gap.csv"

\* B is not handed out before simulated time 1000, and a caller that resumes
\* at or after 1000, A already handed out and B in reach of its /next (the
\* round-robin and priority /next release what is due themselves, the FIFO one
\* needs B in the ready queue), is answered ok with B whatever its deadline
GapScenario ==
    /\ (GapRun' /\ "B" \in Range(Ids(dispatched')))
       => wall_to_sim(ACTIVE_RUN', now') >= 1000
    /\ \A s \in Slots :
          (/\ WaiterResumes(s)
           /\ GapRun /\ Unfinished
           /\ Ids(dispatched) = <<"A">>
           /\ wall_to_sim(ACTIVE_RUN, now) >= 1000
           /\ policy = "fifo" => "B" \in Range(ACTIVE_RUN.ready_q))
          => /\ reply' = Reply("next", s, 200, "ok", "B")
             /\ slot'[s].pc = "assigned"

\* no caller is still asleep un-notified once the arrival time of a pending job
\* has come
WokenAtArrival ==
    Unfinished =>
        \A s \in Blocked :
            (\E a \in PendingArrivals(ACTIVE_RUN) : a <= wall_to_sim(ACTIVE_RUN, now))
            => s \in RUN_CV.woken \/ now >= slot[s].wake

\* round-robin: the caller's own wait ends no later than the first clock reading
\* at which the next pending job has arrived
WaitEndsAtArrival ==
    (policy = "rr" /\ Unfinished) =>
        \A s \in Blocked : \A a \in PendingArrivals(ACTIVE_RUN) :
            \/ s \in RUN_CV.woken
            \/ wall_to_sim(ACTIVE_RUN, slot[s].wake - 1) < a

\* FIFO and priority: the step that moves a pending job to the ready set
\* notifies every sleeping caller
AdmissionNotifies ==
    (policy \in {"fifo", "priority"} /\ nruns' = nruns
     /\ Len(admitted') > Len(admitted))
    => \A s \in Slots : slot'[s].pc = "blocked" => s \in RUN_CV'.woken

NotAlive(w, c) ==
    IF w \notin DOMAIN WORKERS THEN TRUE
    ELSE \/ now - WORKERS[w].last_seen > WORKER_TIMEOUT_MS
         \/ c < 0
         \/ c >= WORKERS[w].cores
Rejected(op, w, c) ==
    /\ reply'.op = op /\ reply'.who = <<w, c>> /\ reply'.code = 400
    /\ UNCHANGED <<ACTIVE_RUN, RUN_CV, WORKERS, ARRIVAL_THREADS, nruns, admitted,
                   dispatched>>

\* C14: a /next or a /done whose worker_id is unknown, whose worker's last_seen
\* is older than the worker timeout, or whose core_id is outside
\* 0 <= core_id < cores is answered HTTP 400 and leaves the run, its waiters and
\* the registry unchanged.
C14_DeadCallerRejected ==
    [][ /\ \A s \in Slots :
            NotAlive(s[1], s[2]) =>
                /\ \A t \in 1 .. MaxTimeoutMs : DriverNext(s, t) => Rejected("next", s[1], s[2])
                /\ DriverDone(s) => Rejected("done", s[1], s[2])
        /\ \A w \in ClientIds, c \in CoreIds :
            NotAlive(w, c) =>
                /\ OtherNext(w, c) => Rejected("next", w, c)
                /\ \A jid \in JobIds : OtherDone(w, c, jid) => Rejected("done", w, c)
      ]_vars

\* the /done of a worker whose heartbeat lapsed while its core ran a job of the
\* unfinished run was answered 400
C14_Witness ==
    /\ reply.op = "done" /\ reply.code = 400 /\ reply.who = <<"w1", 0>>
    /\ "w1" \in DOMAIN WORKERS
    /\ now - WORKERS["w1"].last_seen > WORKER_TIMEOUT_MS
    /\ Unfinished
    /\ reply.job_id \in Range(Ids(dispatched))

\* C15: a /done from an alive (worker, core) for a job_id that is not a job of
\* the active, unfinished run is answered HTTP 400: the run, its counters and
\* queues stay as they are and no caller asleep in RUN_CV.wait is notified.
C15_UnknownJobRejected ==
    [][ \A w \in ClientIds, c \in CoreIds, jid \in JobIds :
          (/\ OtherDone(w, c, jid)
           /\ ~ NotAlive(w, c)
           /\ Running
           /\ jid \notin DOMAIN ACTIVE_RUN.jobs)
          => /\ reply' = Reply("done", <<w, c>>, 400, None, jid)
             /\ UNCHANGED <<ACTIVE_RUN, RUN_CV, admitted, dispatched, slot>>
      ]_vars

\* a /done for job Z was answered 400 while a caller sleeps in RUN_CV.wait,
\* not notified
C15_Witness ==
    /\ reply = Reply("done", <<"w1", 0>>, 400, None, "Z")
    /\ ~ NotAlive("w1", 0)
    /\ Running
    /\ "Z" \notin DOMAIN ACTIVE_RUN.jobs
    /\ Blocked # {}
    /\ RUN_CV.woken = {}

\* the dataset of the request lacks a column the service requires
Malformed(req) ==
    /\ req.dataset_file \in DOMAIN DATA_DIR
    /\ \/ ~ ({"job_id", "service_time_ms"} \subseteq DATA_DIR[req.dataset_file].columns)
       \/ policy = "priority" /\ "priority" \notin DATA_DIR[req.dataset_file].columns

\* C16: a /start with fewer alive slots than min_slots, with a missing dataset
\* file, or with a dataset that lacks required columns is answered HTTP 400 and
\* leaves the active run, its arrival thread and the waiters untouched.
C16_StartRejected ==
    [][ \A req \in StartReqs \cup OtherStartReqs :
          (/\ Start(req)
           /\ \/ total_alive_slots < req.min_slots
              \/ req.dataset_file \notin DOMAIN DATA_DIR
              \/ Malformed(req))
          => /\ reply' = Reply("start", <<>>, 400, None, None)
             /\ UNCHANGED <<ACTIVE_RUN, RUN_CV, ARRIVAL_THREADS, nruns, slot>>
      ]_vars

\* C17: /start replaces the active run in one step: the service holds one run,
\* the one started last; /status, /next and /done after a successful /start see
\* the new run only (a job handed out is a job of the new run, taken under its
\* run id); every caller asleep in RUN_CV.wait at the /start is notified, and
\* when it resumes while the new run's ready set is not empty it is handed a job.
C17_StartReplacesRun ==
    [][ /\ \A req \in StartReqs :
            (Start(req) /\ reply'.code = 200)
            => /\ nruns' = nruns + 1
               /\ status'.status = "running"
               /\ status'.run_id = nruns'
               /\ status'.completed = 0
               /\ status'.total = ACTIVE_RUN'.total_jobs
               /\ \A s \in Blocked : s \in RUN_CV'.woken
               /\ RUN_CV'.waiters = <<>>
        /\ ACTIVE_RUN # NoRun => ACTIVE_RUN.run_id = nruns
        /\ \A s \in Slots :
            /\ ((WaiterResumes(s) \/ \E t \in 1 .. MaxTimeoutMs : DriverNext(s, t))
                /\ slot'[s].pc = "assigned")
               => /\ slot'[s].run_id = nruns
                  /\ reply' = Reply("next", s, 200, "ok", slot'[s].job_id)
                  /\ reply'.job_id \in DOMAIN ACTIVE_RUN.jobs
                  /\ ACTIVE_RUN'.run_id = nruns
            /\ (WaiterResumes(s) /\ Unfinished /\ ReadyNonEmpty)
               => reply' = Reply("next", s, 200, "ok", slot'[s].job_id)
            /\ (DriverDone(s) /\ reply'.code = 200 /\ ACTIVE_RUN # NoRun)
               => /\ ACTIVE_RUN'.run_id = nruns
                  /\ ACTIVE_RUN'.completed >= ACTIVE_RUN.completed
      ]_vars

\* a second /start has just replaced a run on which a caller was asleep: the
\* caller is notified and the new run has a job ready for it
C17_Witness ==
    /\ nruns = 2
    /\ reply = Reply("start", <<>>, 200, "ok", None)
    /\ Blocked # {}
    /\ Blocked \subseteq RUN_CV.woken
    /\ Running /\ ReadyNonEmpty
    /\ dispatched = <<>>

\* C18: with a writable results directory, the /done that makes completed equal
\* total_jobs finalizes the run in the same step: done is true, the summary and
\* both result paths are set, every caller asleep in RUN_CV.wait is notified and
\* is answered done when it resumes, and /status reports done with this run id
\* until a /start replaces the run.
C18_Finalization ==
    [][ /\ \A s \in Slots :
            /\ (/\ DriverDone(s)
                /\ ~ to_csv_raises
                /\ Running
                /\ ACTIVE_RUN.completed < ACTIVE_RUN.total_jobs
                /\ ACTIVE_RUN'.completed = ACTIVE_RUN.total_jobs)
               => /\ ACTIVE_RUN'.done
                  /\ ACTIVE_RUN'.summary.jobs # Unset
                  /\ ACTIVE_RUN'.jobs_csv # NoPath
                  /\ ACTIVE_RUN'.run_csv # NoPath
                  /\ \A b \in Blocked : b \in RUN_CV'.woken
                  /\ status' = [status |-> "done", run_id |-> ACTIVE_RUN.run_id,
                                summary |-> ACTIVE_RUN'.summary,
                                jobs_csv |-> ACTIVE_RUN'.jobs_csv,
                                run_csv |-> ACTIVE_RUN'.run_csv]
            /\ (WaiterResumes(s) /\ ACTIVE_RUN # NoRun /\ ACTIVE_RUN.done)
               => reply' = Reply("next", s, 200, "done", None)
        /\ (ACTIVE_RUN # NoRun /\ ACTIVE_RUN.done /\ nruns' = nruns)
           => status' = status
      ]_vars

\* the last /done has finalized the run while another caller was asleep: the
\* caller is notified and has not resumed yet
C18_Witness ==
    /\ reply.op = "done" /\ reply.code = 200
    /\ ACTIVE_RUN # NoRun /\ ACTIVE_RUN.done
    /\ ACTIVE_RUN.completed = ACTIVE_RUN.total_jobs
    /\ ACTIVE_RUN.jobs_csv # NoPath
    /\ Blocked # {}
    /\ Blocked \subseteq RUN_CV.woken

\* C19: when the result files cannot be written, the /done that makes completed
\* equal total_jobs still leaves the run done, without result paths, and /status
\* reports done rather than running.
C19_DoneDespiteWriteFailure ==
    [][ \A s \in Slots :
          (/\ DriverDone(s)
           /\ to_csv_raises
           /\ Running
           /\ ACTIVE_RUN.completed < ACTIVE_RUN.total_jobs
           /\ ACTIVE_RUN'.completed = ACTIVE_RUN.total_jobs)
          => /\ ACTIVE_RUN'.done
             /\ ACTIVE_RUN'.jobs_csv = NoPath
             /\ ACTIVE_RUN'.run_csv = NoPath
             /\ status'.status = "done"
      ]_vars

\* the jobs in the ready set of the active run
ReadyIds ==
    IF policy = "priority" THEN {e[4] : e \in ACTIVE_RUN.ready_heap}
    ELSE Range(ACTIVE_RUN.ready_q)
\* a job of the unfinished run that /next handed out, that is neither finished
\* nor back in the ready set, and that no core of the run holds any more: the
\* /done of its worker was refused because the worker was dead
Lost(j) ==
    /\ Running
    /\ j \in Range(Ids(dispatched))
    /\ ACTIVE_RUN.jobs[j].finish_ms = Unset
    /\ j \notin ReadyIds
    /\ \A s \in Slots :
          ~ (InFlight(s) /\ slot[s].job_id = j /\ slot[s].run_id = ACTIVE_RUN.run_id)

\* C20: a job whose worker was dead when it reported /done is lost: it is never
\* put back into the ready set and never handed out again, so completed stays
\* below total_jobs and the run never reaches done, whatever the workers do.
C20_LostJobs ==
    [][ \A j \in {"A", "B", "C", "X", "Y"} :
          Lost(j) =>
             /\ ACTIVE_RUN.completed < ACTIVE_RUN.total_jobs
             /\ nruns' = nruns =>
                   /\ Lost(j)'
                   /\ Len(dispatched') > Len(dispatched)
                      => dispatched'[Len(dispatched')][1] # j
                   /\ ~ ACTIVE_RUN'.done
      ]_vars

\* C21: the core driver posts /done for the job it was handed, and when the
\* POST is answered with an error status it keeps the event and posts it again:
\* the report is not dropped, and the driver asks for no other job before the
\* report was accepted.
C21_DoneRetried ==
    [][ \A s \in Slots :
          DriverDone(s) =>
             /\ reply'.op = "done" /\ reply'.who = s /\ reply'.job_id = slot[s].job_id
             /\ reply'.code # 200 =>
                   /\ slot'[s].pc = "report"
                   /\ slot'[s].job_id = slot[s].job_id
                   /\ slot'[s].started_wall_ms = slot[s].started_wall_ms
                   /\ slot'[s].finished_wall_ms = slot[s].finished_wall_ms
      ]_vars

\* the worker's per-core hand-over cells, as the position of the core's driver
\* and thread shows them: assignments[core_id] holds a message from
\* assign_to_core until core_thread takes it, done_qs[core_id] holds the event
\* from core_thread's put until core_driver's get and POST
assignments(s) ==
    IF slot[s].pc = "assigned"
    THEN <<[job_id |-> slot[s].job_id, execution_ms |-> slot[s].work_ms]>>
    ELSE <<>>
done_qs(s) == IF slot[s].pc = "report" THEN <<DoneEvent(s)>> ELSE <<>>
\* the core has a job between the ok reply and the POST /done
HasJob(s) == slot[s].job_id # None

C23_RegistryOperations ==
    [][ \A w \in ClientIds :
          /\ \A c \in CoresValues :
                Register(w, c) =>
                   /\ DOMAIN WORKERS' = DOMAIN WORKERS \cup {w}
                   /\ WORKERS'[w] = [cores |-> c, last_seen |-> now]
                   /\ \A x \in DOMAIN WORKERS \ {w} : WORKERS'[x] = WORKERS[x]
                   /\ (w \in DOMAIN WORKERS /\ WORKERS[w].cores = c)
                      => [WORKERS' EXCEPT ![w].last_seen = WORKERS[w].last_seen] = WORKERS
          /\ Heartbeat(w) =>
                IF w \in DOMAIN WORKERS
                THEN /\ reply'.status = "ok"
                     /\ WORKERS' = [WORKERS EXCEPT ![w].last_seen = now]
                ELSE /\ reply'.status = "unknown"
                     /\ WORKERS' = WORKERS
      ]_vars

\* a heartbeat of the unregistered w9 was refused while w1, registered earlier
\* and registered again with the same cores, kept its entry
C23_Witness ==
    /\ reply = Reply("heartbeat", <<"w9">>, 200, "unknown", None)
    /\ DOMAIN WORKERS = {"w1"}
    /\ WORKERS["w1"].cores = 2
    /\ WORKERS["w1"].last_seen = 1
    /\ now = 2

\* the valid (worker, core) pairs: the worker is registered, its last_seen is
\* within the timeout and 0 <= core_id < cores
ValidPairs ==
    {p \in ClientIds \X (0 .. 2) :
        /\ p[1] \in DOMAIN WORKERS
        /\ now - WORKERS[p[1]].last_seen <= WORKER_TIMEOUT_MS
        /\ p[2] < WORKERS[p[1]].cores}

\* C24: is_alive_worker_core accepts exactly the valid pairs, and the slot count
\* that /workers returns and that /start compares with min_slots is the number
\* of valid pairs, whatever cores values were registered.
C24_SlotAccounting ==
    [][ /\ \A w \in ClientIds, c \in -1 .. 2 :
              is_alive_worker_core(w, c) <=> <<w, c>> \in ValidPairs
        /\ total_alive_slots = Cardinality(ValidPairs)
        /\ workers.total_slots = Cardinality(ValidPairs)
        /\ \A req \in StartReqs \cup OtherStartReqs :
              (Start(req) /\ Cardinality(ValidPairs) >= req.min_slots
               /\ req.dataset_file \in DOMAIN DATA_DIR /\ ~ Malformed(req))
              => reply'.code = 200
      ]_vars

\* the jobs CSV of the finalized active run
Finalized == ACTIVE_RUN # NoRun /\ ACTIVE_RUN.done
\* response = finish - arrival in every row, whatever the policy
ResponseMetric ==
    \A j \in DOMAIN ACTIVE_RUN.jobs_df :
        LET row == ACTIVE_RUN.jobs_df[j]
            job == ACTIVE_RUN.jobs[j]
        IN  /\ row.response_time_ms = job.finish_ms - job.arrival_ms
            /\ row.finish_time_ms = job.finish_ms
\* waiting = start - arrival and execution = finish - start, start being the
\* start of the first dispatch
StartMetrics ==
    \A j \in DOMAIN ACTIVE_RUN.jobs_df :
        LET row == ACTIVE_RUN.jobs_df[j]
            job == ACTIVE_RUN.jobs[j]
        IN  /\ row.waiting_time_ms = StartOf(job) - job.arrival_ms
            /\ "execution_time_ms" \in DOMAIN row
               => /\ row.execution_time_ms = job.finish_ms - StartOf(job)
                  /\ row.response_time_ms = row.waiting_time_ms + row.execution_time_ms
\* round-robin: waiting = response - service_ms, the time the job spent not
\* running, and the row has no execution time
ServiceMetrics ==
    \A j \in DOMAIN ACTIVE_RUN.jobs_df :
        LET row == ACTIVE_RUN.jobs_df[j]
            job == ACTIVE_RUN.jobs[j]
        IN  /\ row.waiting_time_ms = row.response_time_ms - job.service_ms
            /\ "execution_time_ms" \notin DOMAIN row
            /\ job.first_start_ms # Unset => row.first_start_time_ms = job.first_start_ms

-----------------------------------------------------------------------------
(* FIFO contention on one core                                              *)

\* one worker with one core; the 300 ms job sleeps 1.5 ms of wall time
ContendConfigs == {Config("contend.csv", Speedup(200, 1), 1, {0})}

InitContend == InitCommon /\ policy = "fifo" /\ cfg \in ContendConfigs

SpecContend == InitContend /\ [][NextFifo]_vars

\* the jobs the core executed were handed out in the order of the dispatches
ExecutedBefore(i, j) ==
    /\ i \in 1 .. Len(dispatched) /\ j = i + 1 /\ j \in 1 .. Len(dispatched)
    /\ ACTIVE_RUN.jobs[dispatched[i][1]].finish_ms # Unset
    /\ ACTIVE_RUN.jobs[dispatched[j][1]].start_ms # Unset

\* C26: FIFO on a single core: the start_ms recorded for a job is at least the
\* finish_ms recorded for the job the core executed immediately before it
\* (for A(300, 0) and B(100, 50): B does not start before A's finish).
C26_NoOverlapOnOneCore ==
    (policy = "fifo" /\ cfg.cores = 1 /\ ACTIVE_RUN # NoRun) =>
        \A i, j \in 1 .. Len(dispatched) :
            ExecutedBefore(i, j) =>
                ACTIVE_RUN.jobs[dispatched[j][1]].start_ms
                    >= ACTIVE_RUN.jobs[dispatched[i][1]].finish_ms

-----------------------------------------------------------------------------
(* The simulated clock of a run                                             *)

SameRun ==
    /\ ACTIVE_RUN # NoRun /\ ACTIVE_RUN' # NoRun
    /\ ACTIVE_RUN'.run_id = ACTIVE_RUN.run_id

\* what an update may raise the clock to: the simulated time of the wall
\* clock, or the finish_ms a /done has just recorded
Candidates ==
    {wall_to_sim(ACTIVE_RUN, now)}
        \cup {ACTIVE_RUN'.jobs[j].finish_ms : j \in DOMAIN ACTIVE_RUN'.jobs}

\* C27: current_sim_ms of a FIFO or priority run never decreases; the arrival
\* thread, /next and /done leave it at the maximum of its old value and the
\* candidate (the simulated wall time or a job's finish_ms).
C27_SimClockMonotone ==
    [][ (policy \in {"fifo", "priority"} /\ SameRun) =>
            /\ ACTIVE_RUN'.current_sim_ms >= ACTIVE_RUN.current_sim_ms
            /\ ACTIVE_RUN'.current_sim_ms # ACTIVE_RUN.current_sim_ms =>
                   ACTIVE_RUN'.current_sim_ms \in Candidates
      ]_vars

\* a /done whose finish_ms lay behind the clock has been answered
C27_Witness ==
    /\ policy \in {"fifo", "priority"} /\ ACTIVE_RUN # NoRun
    /\ reply.op = "done" /\ reply.code = 200 /\ reply.status = "ok"
    /\ reply.job_id \in DOMAIN ACTIVE_RUN.jobs
    /\ ACTIVE_RUN.jobs[reply.job_id].finish_ms # Unset
    /\ ACTIVE_RUN.jobs[reply.job_id].finish_ms < ACTIVE_RUN.current_sim_ms

-----------------------------------------------------------------------------
(* What /next takes from the ready structure                                *)

\* the number of entries the ready structure of the run holds for job j
ReadyCount(run, j) ==
    IF policy = "priority"
    THEN Cardinality({e \in run.ready_heap : e[4] = j})
    ELSE Cardinality({i \in 1 .. Len(run.ready_q) : run.ready_q[i] = j})

\* the number of times the step moved job j from pending to ready
Promoted(j) ==
    Cardinality({i \in Len(admitted) + 1 .. Len(admitted') : admitted'[i] = j})

\* one pass of a /next call of the core: its entry, or its return from the wait
NextStep(s) ==
    \/ \E t \in 1 .. MaxTimeoutMs : DriverNext(s, t)
    \/ WaiterResumes(s)

Returned(s, j) == slot'[s].pc = "assigned" /\ slot'[s].job_id = j

\* C28: /next removes a job from the ready structure only in the step in which
\* it answers ok with that job, and then one entry of that job only; a /next
\* that answers wait, no_run or done, that blocks, or that is rejected with
\* 400 removes nothing (jobs promoted by the call are added).
C28_NoSpeculativePop ==
    [][ \A s \in Slots :
          NextStep(s) =>
             /\ slot'[s].pc = "assigned" =>
                    reply' = Reply("next", s, 200, "ok", slot'[s].job_id)
             /\ IF ACTIVE_RUN = NoRun
                THEN ACTIVE_RUN' = NoRun /\ slot'[s].pc # "assigned"
                ELSE /\ ACTIVE_RUN' # NoRun
                     /\ \A j \in DOMAIN ACTIVE_RUN.jobs :
                           ReadyCount(ACTIVE_RUN', j) =
                               ReadyCount(ACTIVE_RUN, j) + Promoted(j)
                                   - (IF Returned(s, j) THEN 1 ELSE 0)
      ]_vars

\* a /next of a dead caller has been rejected while a job was ready
C28_Witness ==
    /\ ACTIVE_RUN # NoRun /\ ~ ACTIVE_RUN.done
    /\ reply.op = "next" /\ reply.code = 400
    /\ \E j \in DOMAIN ACTIVE_RUN.jobs : ReadyCount(ACTIVE_RUN, j) > 0

-----------------------------------------------------------------------------
(* The order in which pending jobs become ready                             *)

\* the job went through the pending set: round-robin keeps every job in
\* pending_ids, FIFO and priority the jobs with arrival_ms > 0
WasPending(j) == policy = "rr" \/ ACTIVE_RUN.jobs[j].arrival_ms > 0

ReleasedInOrder(x, y) ==
    \/ ACTIVE_RUN.jobs[x].arrival_ms < ACTIVE_RUN.jobs[y].arrival_ms
    \/ /\ ACTIVE_RUN.jobs[x].arrival_ms = ACTIVE_RUN.jobs[y].arrival_ms
       /\ RowIndex(ACTIVE_RUN, x) < RowIndex(ACTIVE_RUN, y)

\* the first entry of the job into the ready structure (a round-robin job
\* re-enters it after every slice that leaves work)
FirstReady(j) == CHOOSE i \in 1 .. Len(admitted) :
                  admitted[i] = j /\ \A k \in 1 .. i - 1 : admitted[k] # j

\* C29: in a scheduler with a pending set, of two jobs moved from pending to
\* ready the one with the smaller arrival_ms enters the ready structure first,
\* also within one promotion pass; equal arrival_ms enter in dataset row order.
C29_ReleasedInArrivalOrder ==
    (ACTIVE_RUN # NoRun /\ policy # "rr_basic") =>
        \A x, y \in Range(admitted) :
            (WasPending(x) /\ WasPending(y) /\ FirstReady(x) < FirstReady(y)) =>
                ReleasedInOrder(x, y)

-----------------------------------------------------------------------------
(* The admission partition of /start                                        *)

\* the ids of the dataset's rows with arrival_time_ms on one side of 0
ArrivedRows(f) ==
    {DATA_DIR[f].rows[i].job_id : i \in {k \in 1 .. Len(DATA_DIR[f].rows) :
                                           DATA_DIR[f].rows[k].arrival_time_ms <= 0}}
FutureRows(f) ==
    {DATA_DIR[f].rows[i].job_id : i \in {k \in 1 .. Len(DATA_DIR[f].rows) :
                                           DATA_DIR[f].rows[k].arrival_time_ms > 0}}

\* the jobs in the pending set of the run (src/scheduler.py keeps none)
PendingIds ==
    CASE policy = "fifo"     -> Range(ACTIVE_RUN.pending_jobs)
      [] policy = "priority" -> {e[3] : e \in ACTIVE_RUN.pending_heap}
      [] policy = "rr"       -> {ACTIVE_RUN.pending_ids[i] :
                                   i \in ACTIVE_RUN.pending_idx + 1 ..
                                            Len(ACTIVE_RUN.pending_ids)}
      [] policy = "rr_basic" -> {}

Partitioned ==
    /\ ReadyIds = ArrivedRows(ACTIVE_RUN.dataset_file)
    /\ PendingIds = FutureRows(ACTIVE_RUN.dataset_file)

\* C30: in each of the four services a successful /start leaves exactly the
\* jobs with arrival_ms <= 0 in the ready structure and exactly the jobs with
\* arrival_ms > 0 in the pending set.
C30_AdmissionPartition ==
    [][ \A req \in StartReqs :
          (Start(req) /\ reply'.code = 200) => Partitioned'
      ]_vars

-----------------------------------------------------------------------------
(* The lifetime of the arrival threads                                      *)

\* the thread of run r goes on: its loop condition `not run.done` holds
KeepsRunning(r) == r \in DOMAIN ARRIVAL_THREADS /\ ~ thread_run_done(r)

Replaced(r) == ACTIVE_RUN # NoRun /\ ACTIVE_RUN.run_id # r

\* C31: the arrival thread of a run ends once the run is finalized and once
\* the run is replaced by a later /start: no thread of a replaced run goes on
\* looping, and at most one arrival thread goes on at any time.
C31_ArrivalThreadLifetime ==
    /\ \A r \in DOMAIN ARRIVAL_THREADS : Replaced(r) => ~ KeepsRunning(r)
    /\ Cardinality({r \in DOMAIN ARRIVAL_THREADS : KeepsRunning(r)}) <= 1

-----------------------------------------------------------------------------
(* Round-robin slicing under every quantum /start accepts                   *)

\* StartReq.quantum_ms is any int: /start takes 0 as it takes 1 and 2
QuantumConfigs == {Config("seq.csv", Speedup(1, 1), 1, {0, 1, 2})}

InitQuantum ==
    /\ InitCommon
    /\ policy \in {"rr_basic", "rr"}
    /\ cfg \in QuantumConfigs

\* the experiment is observed up to MaxSlices slices of a run
MaxSlices == 4
NextQuantum ==
    \/ Tick
    \/ \E w \in WorkerIds : WorkerBoot(w)
    \/ \E w \in WorkerIds : WorkerHeartbeat(w)
    \/ \E req \in StartReqs : Start(req)
    \/ \E s \in Slots, t \in 1 .. MaxTimeoutMs :
          Len(dispatched) < MaxSlices /\ DriverNext(s, t)
    \/ \E s \in Slots : Len(dispatched) < MaxSlices /\ WaiterResumes(s)
    \/ \E s \in Slots : CoreStarts(s)
    \/ \E s \in Slots : CoreFinishes(s)
    \/ \E s \in Slots : DriverDone(s)

SpecQuantum == InitQuantum /\ [][NextQuantum]_vars

CeilDiv(a, b) == (a + b - 1) \div b

\* the slice /next hands to core s in this step
SliceOk(s) ==
    LET job == ACTIVE_RUN.jobs[slot'[s].job_id]
        q == ACTIVE_RUN.quantum_ms
    IN  /\ slot'[s].work_ms = Min(q, job.remaining_ms)
        /\ 1 <= slot'[s].work_ms /\ slot'[s].work_ms <= q

\* the /done of core s was accepted in this step and booked a slice
SliceBooked(s) ==
    /\ reply'.code = 200 /\ reply'.status = "ok"
    /\ ACTIVE_RUN # NoRun /\ slot[s].job_id \in DOMAIN ACTIVE_RUN.jobs

SliceProgress(s) ==
    LET before == ACTIVE_RUN.jobs[slot[s].job_id]
        after == ACTIVE_RUN'.jobs[slot[s].job_id]
    IN  /\ after.remaining_ms < before.remaining_ms
        /\ after.finish_ms # Unset =>
              /\ ACTIVE_RUN.quantum_ms >= 1
              /\ after.slices = CeilDiv(after.service_ms, ACTIVE_RUN.quantum_ms)

\* C32: round-robin, for every quantum_ms /start accepts: a slice handed out
\* by /next is min(quantum_ms, remaining_ms) and lies in 1 .. quantum_ms, an
\* accepted /done strictly decreases the job's remaining_ms, and a job of
\* service_ms s is complete after exactly ceil(s / quantum_ms) slices.
C32_SlicingTerminates ==
    [][ RoundRobin =>
          \A s \in Slots :
             /\ (NextStep(s) /\ slot'[s].pc = "assigned") => SliceOk(s)
             /\ (DriverDone(s) /\ SliceBooked(s)) => SliceProgress(s)
      ]_vars

-----------------------------------------------------------------------------
(* Determinism of the hand-out order                                        *)

\* the run after a promotion at simulated time t: a pass of the arrival
\* thread (FIFO, priority) or the release at the head of /next (round-robin)
PromotedAt(run, t) ==
    CASE policy = "fifo"     -> fifo_arrival_pass(run, t)
      [] policy = "priority" ->
            LET run1 == [run EXCEPT !.current_sim_ms = advance(@, t)]
            IN  promote_arrivals(run1, run1.current_sim_ms, <<>>).run
      [] policy = "rr"       -> release_arrivals(run, t)
      [] policy = "rr_basic" -> run

RECURSIVE HeapOrder(_)
HeapOrder(heap) ==
    IF heap = {} THEN <<>>
    ELSE <<ReadyMin(heap)[4]>> \o HeapOrder(heap \ {ReadyMin(heap)})

\* the order in which /next will hand out what is ready
HandOutOrder(run) ==
    IF policy = "priority" THEN HeapOrder(run.ready_heap) ELSE run.ready_q

\* FIFO with three jobs of which the later row arrives first
ReplayConfigs == {Config("late.csv", Speedup(1, 1), 1, {0})}

InitReplay == InitCommon /\ policy = "fifo" /\ cfg \in ReplayConfigs

SpecReplay == InitReplay /\ [][NextFifo]_vars

\* the simulated times the wall clock can show from now on
SimTimes(run) == {wall_to_sim(run, w) : w \in now .. MaxWall}

\* C33: with the requests and their timing given, the order in which the jobs
\* of a run are handed out is determined: whenever else a promotion has taken
\* place before (the arrival thread is not timed by the requests), the ready
\* structure a /next at simulated time t finds hands out the same jobs in the
\* same order.
C33_Determinism ==
    Running =>
        \A t1, t2 \in SimTimes(ACTIVE_RUN) :
            t1 <= t2 =>
                HandOutOrder(PromotedAt(PromotedAt(ACTIVE_RUN, t1), t2))
                    = HandOutOrder(PromotedAt(ACTIVE_RUN, t2))

-----------------------------------------------------------------------------
(* The completion counter                                                   *)

FinishedJobs(run) == {j \in DOMAIN run.jobs : run.jobs[j].finish_ms # Unset}

\* C34: whatever /done calls were accepted (a replayed one, one for a job
\* never dispatched), completed is the number of distinct jobs of the run with
\* finish_ms set and at most total_jobs, and a finalized run has finish_ms set
\* for every job.
C34_CompletionCounter ==
    ACTIVE_RUN # NoRun =>
        /\ ACTIVE_RUN.completed = Cardinality(FinishedJobs(ACTIVE_RUN))
        /\ ACTIVE_RUN.completed <= ACTIVE_RUN.total_jobs
        /\ ACTIVE_RUN.done => FinishedJobs(ACTIVE_RUN) = DOMAIN ACTIVE_RUN.jobs

-----------------------------------------------------------------------------
(* Run isolation across /start                                              *)

\* core s reports a job it was handed under a run that /start has replaced
StaleReport(s) ==
    /\ slot[s].pc = "report"
    /\ ACTIVE_RUN # NoRun
    /\ slot[s].run_id # ACTIVE_RUN.run_id

\* C35: a /done that reports a job dispatched under a previous run, arriving
\* after /start replaced that run, leaves the new run as it is: start_ms and
\* finish_ms of its jobs, completed and the ready queue do not change.
C35_RunIsolation ==
    [][ \A s \in Slots :
          (StaleReport(s) /\ DriverDone(s)) => ACTIVE_RUN' = ACTIVE_RUN
      ]_vars

-----------------------------------------------------------------------------
(* Liveness of the caller at the moment of dispatch                         *)

\* C36: /next answers ok with a job only to a (worker, core) that is alive at
\* the instant the job is popped: a worker whose last_seen expired while its
\* /next was blocked on the condition variable is not handed a job.
C36_AliveAtDispatch ==
    [][ \A s \in Slots :
          (NextStep(s) /\ slot'[s].pc = "assigned") =>
              is_alive_worker_core(s[1], s[2])
      ]_vars

-----------------------------------------------------------------------------
(* Job conservation                                                         *)

\* returned by /next and not reported complete: the scheduler keeps no record
\* of these jobs, they are the dispatched ones found nowhere else
InFlightJobs ==
    {j \in Range(Ids(dispatched)) :
        j \notin PendingIds \cup ReadyIds \cup FinishedJobs(ACTIVE_RUN)}

ReadySize ==
    IF policy = "priority" THEN Cardinality(ACTIVE_RUN.ready_heap)
    ELSE Len(ACTIVE_RUN.ready_q)

PendingSize ==
    CASE policy = "fifo"     -> Len(ACTIVE_RUN.pending_jobs)
      [] policy = "priority" -> Cardinality(ACTIVE_RUN.pending_heap)
      [] policy = "rr"       -> Len(ACTIVE_RUN.pending_ids) - ACTIVE_RUN.pending_idx
      [] policy = "rr_basic" -> 0

\* C37: in an unfinished run each job is in exactly one of pending, ready, in
\* flight and completed; pending and ready hold no job twice; for the priority
\* service ready + pending of /status, the jobs in flight and completed add up
\* to total_jobs.
C37_JobConservation ==
    Running =>
        /\ PendingIds \cap ReadyIds = {}
        /\ PendingIds \cap FinishedJobs(ACTIVE_RUN) = {}
        /\ ReadyIds \cap FinishedJobs(ACTIVE_RUN) = {}
        /\ DOMAIN ACTIVE_RUN.jobs =
              PendingIds \cup ReadyIds \cup InFlightJobs \cup FinishedJobs(ACTIVE_RUN)
        /\ ReadySize = Cardinality(ReadyIds)
        /\ PendingSize = Cardinality(PendingIds)
        /\ policy = "priority" =>
              status.ready + status.pending + Cardinality(InFlightJobs)
                  + status.completed = status.total

-----------------------------------------------------------------------------
(* The empty workload                                                       *)

\* a dataset with the header line only, next to one with jobs
EmptyConfigs ==
    {Config("empty.csv", Speedup(1, 1), 1, {0}),
     Config("seq.csv", Speedup(1, 1), 1, {0})}

InitEmpty == InitCommon /\ policy = "fifo" /\ cfg \in EmptyConfigs

SpecEmpty == InitEmpty /\ [][NextFifo]_vars

\* C38: a run started from a dataset with zero rows is finalized: it does not
\* stay in status running while /next already answers done.
C38_EmptyRunFinalized ==
    (/\ ACTIVE_RUN # NoRun /\ ACTIVE_RUN.total_jobs = 0
     /\ reply.op = "next" /\ reply.status = "done")
        => status.status = "done"
-----------------------------------------------------------------------------
Expired(w) == now - WORKERS[w].last_seen > WORKER_TIMEOUT_MS

RECURSIVE RegisteredCores(_)
RegisteredCores(S) ==
    IF S = {} THEN 0
    ELSE LET w == CHOOSE x \in S : TRUE IN WORKERS[w].cores + RegisteredCores(S \ {w})

Lingers(w) ==
    /\ \A c \in CoreIds : ~ is_alive_worker_core(w, c)
    /\ \A e \in workers.workers : e.worker_id # w

Revives(w) ==
    (Expired(w) /\ Heartbeat(w)) =>
        /\ WORKERS'[w].cores = WORKERS[w].cores
        /\ \A c \in CoreIds :
               (0 <= c /\ c < WORKERS[w].cores) => is_alive_worker_core(w, c)'
        /\ ~ Expired(w)'

\* C39: registry entries are never evicted; an expired worker stays registered
\* with its core count, adds nothing to the slot total and fails
\* is_alive_worker_core on every core, and one heartbeat alone makes every one of
\* its registered cores alive again.
C39_ExpiredEntriesLinger ==
    [][ /\ DOMAIN WORKERS \subseteq DOMAIN WORKERS'
        /\ total_alive_slots = RegisteredCores({w \in DOMAIN WORKERS : ~ Expired(w)})
        /\ total_alive_slots' = RegisteredCores({w \in DOMAIN WORKERS : ~ Expired(w)})'
        /\ \A w \in DOMAIN WORKERS :
               /\ Expired(w) => Lingers(w)
               /\ Expired(w)' => Lingers(w)'
               /\ Revives(w) ]_vars

C39_Witness ==
    /\ now = MaxWall
    /\ reply = Reply("heartbeat", <<"w1">>, 200, "ok", None)
    /\ WORKERS["w1"] = [cores |-> 2, last_seen |-> now]
    /\ is_alive_worker_core("w1", 1)
    /\ "w9" \in DOMAIN WORKERS
    /\ WORKERS["w9"].cores > 0
    /\ Expired("w9")
    /\ total_alive_slots = 2
-----------------------------------------------------------------------------
\* what a finalized run holds apart from its clock
Frozen(run) == [f \in DOMAIN run \ {"current_sim_ms"} |-> run[f]]

SameFinalizedRun ==
    /\ Finalized
    /\ ACTIVE_RUN' # NoRun
    /\ ACTIVE_RUN'.run_id = ACTIVE_RUN.run_id

AnswersDone(s) ==
    ((NextStep(s) \/ DriverDone(s)) /\ reply'.code = 200) => reply'.status = "done"

\* C40: once the run is done, no step that keeps it installed changes its jobs,
\* ready set, pending set, completed, summary or artifact paths, and every /next
\* and /done that is answered is answered "done".
C40_FinalizedRunImmutable ==
    [][ SameFinalizedRun =>
            /\ Frozen(ACTIVE_RUN') = Frozen(ACTIVE_RUN)
            /\ \A s \in Slots : AnswersDone(s) ]_vars

====
